---- MODULE Spec2Model ----
(***************************************************************************)
(* Model of the skills server (server.py): the two index snapshots, the   *)
(* file-timestamp snapshot and the usage statistics, each behind its own  *)
(* non-reentrant threading.Lock, the request threads that run the facade  *)
(* operations and the file_watcher thread that polls the document store.  *)
(*                                                                         *)
(* A `with LOCK:` block whose body only reads or writes the state the     *)
(* lock guards is one step, enabled while nobody holds the lock.  A block *)
(* whose body reads the filesystem or calls a function that takes a lock  *)
(* is split: the acquisition (which blocks while any thread, the          *)
(* acquiring one included, holds the lock) and then one step per          *)
(* directory read and per inner acquisition, the lock being held in       *)
(* between.  The local variables of load_index, build_content_index and   *)
(* check_for_changes are per-thread state, so a snapshot under            *)
(* construction is visible in the model.                                  *)
(***************************************************************************)
EXTENDS Integers, Sequences, FiniteSets, TLC

(* ------------------------------ bounds -------------------------------- *)

\* facade calls started over one behaviour, over all request threads
MaxCalls == 2

\* modifications made to the document store over one behaviour
MaxStoreChanges == 1

(* ------------------------- program constants -------------------------- *)

\* deque(maxlen=100) of recent searches
SearchesMaxLen == 100

\* the request threads, in the order in which an arriving call picks one
ThreadOrder == <<"t1", "t2">>

Threads == {ThreadOrder[i] : i \in 1..Len(ThreadOrder)}

Watcher == "w"

Procs == Threads \cup {Watcher}

\* SKILLS_DIR.iterdir() order over the domain directories the model knows
DomainOrder == <<"d1", "d2">>

Domains == {DomainOrder[i] : i \in 1..Len(DomainOrder)}

FileNames == {"_meta.json", "SKILL.md"}

Files == Domains \X FileNames

\* the names callers pass: one is_safe_skill_name accepts, one it rejects
SafeNames == {DomainOrder[1]}

UnsafeName == "../x"

Locks == {"_INDEX_LOCK", "_CONTENT_INDEX_LOCK", "_FILE_MTIMES_LOCK", "_STATS_LOCK"}

Free == "free"

\* Python None for _INDEX and _CONTENT_INDEX
None == [none |-> TRUE]

ReadOps == {"list_skills", "get_skill", "get_sub_skill", "search_skills"}

Ops == ReadOps \cup {"search_content", "reload_index", "get_stats"}

(* ------------------------------- state -------------------------------- *)

VARIABLES
    rootExists,       \* SKILLS_DIR.exists()
    store,            \* file -> st_mtime, 0 when the file does not exist
    clock,            \* number of store modifications so far (source of mtimes)
    INDEX,            \* _INDEX
    CONTENT_INDEX,    \* _CONTENT_INDEX
    FILE_MTIMES,      \* _FILE_MTIMES, 0 for a path that is not a key
    USAGE_STATS,      \* _USAGE_STATS
    locks,            \* lock -> holder, Free when unlocked
    pc,               \* position of every thread
    op,               \* facade operation a request thread is running
    arg,              \* its domain argument (get_skill, get_sub_skill)
    index,            \* load_index: local `index`
    cindex,           \* build_content_index: local `index`
    pos,              \* loop position in SKILLS_DIR.iterdir()
    ret,              \* value get_index returned to the running operation
    current_mtimes,   \* check_for_changes: local `current_mtimes`
    changed,          \* check_for_changes: local `changed`
    returned,         \* history: what the last check_for_changes returned
    sample,           \* history: the current_mtimes that check had sampled
    prevSample,       \* history: the current_mtimes of the check before it
    calls,            \* facade calls started so far
    index_skills,     \* a call seen alone: index["skills"], in list order
    content,          \* a call seen alone: _CONTENT_INDEX.values(), in order
    query,            \* a call seen alone: its `query`, as its characters
    limit,            \* a call seen alone: its `limit`
    results,          \* a call seen alone: the value it returned
    last_call,        \* calls run one after another: the last call made
    stats_copy,       \* the stats_copy the last _get_stats has returned
    recorded,         \* history: the queries track_usage appended, in order
    committed,        \* history: _USAGE_STATS when _STATS_LOCK was last free
    tool_count,       \* track_usage: the counter value `+= 1` has read
    meta,             \* validate_meta seen alone: the parsed value it is given
    files             \* a load seen alone: directory -> what its files hold

storeVars == <<rootExists, store, clock>>

sharedVars == <<INDEX, CONTENT_INDEX, FILE_MTIMES, USAGE_STATS>>

loadVars == <<index, cindex, pos>>

watchVars == <<current_mtimes, changed, returned, sample, prevSample>>

\* A facade call run alone, from its arguments to the value it returns, is a
\* function of its arguments and of the state it reads: these variables hold
\* the arguments, the values read and the value returned of such a call.  No
\* thread of the interleaving model reads or writes them.
callVars == <<index_skills, content, query, limit, results, last_call>>

\* track_usage and _get_stats seen statement by statement: the result a
\* _get_stats has returned, two history variables and the value each thread
\* has read for its `+= 1`
usageVars == <<stats_copy, recorded, committed, tool_count>>

\* the documents of the store by what they hold, for validate_meta and a load
\* pass seen alone
docVars == <<meta, files>>

vars == <<rootExists, store, clock, INDEX, CONTENT_INDEX, FILE_MTIMES,
          USAGE_STATS, locks, pc, op, arg, index, cindex, pos, ret,
          current_mtimes, changed, returned, sample, prevSample, calls,
          index_skills, content, query, limit, results, last_call,
          stats_copy,
          recorded, committed, tool_count, meta, files>>

(* ------------------------------ helpers ------------------------------- *)

NoFiles == [f \in Files |-> 0]

\* index = {"skills": [], "validation_errors": []}; done marks the value
\* load_index returns (the loop over the directories has finished)
EmptyIndex == [skills |-> <<>>, validation_errors |-> <<>>, done |-> FALSE]

\* index = {} of build_content_index
EmptyContent == [entries |-> {}, done |-> FALSE]

Held(p) == {l \in Locks : locks[l] = p}

\* threading.Lock.acquire: possible only while nobody holds the lock
CanAcquire(l) == locks[l] = Free

Acquire(p, l) == [locks EXCEPT ![l] = p]

Release(l) == [locks EXCEPT ![l] = Free]

\* an exception leaving every enclosing `with` block of p
ReleaseAll(p) == [l \in Locks |-> IF locks[l] = p THEN Free ELSE locks[l]]

\* the record load_index appends for a domain whose _meta.json parses
MetaRecord(d) == [name |-> d, version |-> store[<<d, "_meta.json">>]]

\* the entry build_content_index stores for a domain's SKILL.md
ContentEntry(d) ==
    [domain |-> d, sub_skill |-> "None", file |-> "SKILL.md",
     content |-> store[<<d, "SKILL.md">>]]

\* what one uninterrupted load_index pass over store state s produces
RECURSIVE SkillsOf(_, _)
SkillsOf(s, i) ==
    IF i = 0 THEN <<>>
    ELSE LET d == DomainOrder[i]
         IN  IF s[<<d, "_meta.json">>] # 0
             THEN Append(SkillsOf(s, i - 1),
                         [name |-> d, version |-> s[<<d, "_meta.json">>]])
             ELSE SkillsOf(s, i - 1)

LoadOf(s) ==
    [skills |-> SkillsOf(s, Len(DomainOrder)), validation_errors |-> <<>>,
     done |-> TRUE]

BuildOf(s) ==
    [entries |-> {[domain |-> d, sub_skill |-> "None", file |-> "SKILL.md",
                   content |-> s[<<d, "SKILL.md">>]] :
                     d \in {e \in Domains : s[<<e, "SKILL.md">>] # 0}},
     done |-> TRUE]

(* ------------------------------- Init --------------------------------- *)

\* no call is being looked at alone
NoCall ==
    /\ index_skills = <<>>
    /\ content = <<>>
    /\ query = <<>>
    /\ limit = 0
    /\ results = None
    /\ last_call = None

\* no _get_stats has returned and no query has been recorded
NoRecord ==
    /\ stats_copy = None
    /\ recorded = <<>>
    /\ committed = None
    /\ tool_count = [t \in Threads |-> 0]

\* no document is being looked at by what it holds
NoDocument ==
    /\ meta = None
    /\ files = <<>>

\* the store the process starts on: one domain with both of its files
InitialStore ==
    [f \in Files |-> IF f[1] = DomainOrder[1] THEN 1 ELSE 0]

\* the buffer after searches 1..n have been recorded
SearchesAfter(n) == [i \in 1..n |-> [query |-> i]]

\* _USAGE_STATS of a process that has served n searches and nothing else
UsageAfter(n) ==
    [tool_calls |-> [o \in Ops |-> IF o = "search_skills" THEN n ELSE 0],
     skill_loads |-> [d \in SafeNames |-> 0],
     searches |-> SearchesAfter(n)]

\* the threads, the store and _FILE_MTIMES when the process has been started
Idle ==
    /\ rootExists = TRUE
    /\ store = InitialStore
    /\ clock = 1
    /\ FILE_MTIMES = NoFiles
    /\ locks = [l \in Locks |-> Free]
    /\ pc = [p \in Procs |-> IF p = Watcher THEN "w_check" ELSE "idle"]
    /\ op = [t \in Threads |-> "none"]
    /\ arg = [t \in Threads |-> "none"]
    /\ index = [p \in Procs |-> EmptyIndex]
    /\ cindex = [p \in Procs |-> EmptyContent]
    /\ pos = [p \in Procs |-> 0]
    /\ ret = [t \in Threads |-> None]
    /\ current_mtimes = NoFiles
    /\ changed = FALSE
    /\ returned = FALSE
    /\ sample = NoFiles
    /\ prevSample = NoFiles
    /\ calls = 0

\* the globals other than _USAGE_STATS, the threads and the store when the
\* process has been started
Started == Idle /\ INDEX = None /\ CONTENT_INDEX = None

\* the state of the server process when it has been started
ServerStart == Started /\ USAGE_STATS = UsageAfter(0)

Init == ServerStart /\ NoCall /\ NoRecord /\ NoDocument

(* ------------------------- the document store ------------------------- *)

\* the CRUD collaborator writes (creates or modifies) one file
WriteFile ==
    /\ clock <= MaxStoreChanges
    /\ rootExists
    /\ \E f \in Files :
         store' = [store EXCEPT ![f] = clock + 1]
    /\ clock' = clock + 1
    /\ UNCHANGED <<rootExists, sharedVars, locks, pc, op, arg, loadVars, ret,
                   watchVars, calls>>
    /\ UNCHANGED <<callVars, usageVars, docVars>>

\* ... or removes one
RemoveFile ==
    /\ clock <= MaxStoreChanges
    /\ \E f \in Files :
         /\ store[f] # 0
         /\ store' = [store EXCEPT ![f] = 0]
    /\ clock' = clock + 1
    /\ UNCHANGED <<rootExists, sharedVars, locks, pc, op, arg, loadVars, ret,
                   watchVars, calls>>
    /\ UNCHANGED <<callVars, usageVars, docVars>>

\* the skills directory itself is removed with everything in it
RemoveRoot ==
    /\ clock <= MaxStoreChanges
    /\ rootExists
    /\ rootExists' = FALSE
    /\ store' = NoFiles
    /\ clock' = clock + 1
    /\ UNCHANGED <<sharedVars, locks, pc, op, arg, loadVars, ret, watchVars,
                   calls>>
    /\ UNCHANGED <<callVars, usageVars, docVars>>

StoreChange == WriteFile \/ RemoveFile \/ RemoveRoot

(* --------------------------- control flow ----------------------------- *)

\* where a request thread continues when track_usage returns
AfterTrackUsage(o) ==
    CASE o = "get_skill" -> "gs_read"
      [] o = "search_content" -> "sc_acq"
      [] o = "reload_index" -> "rl_count"
      [] OTHER -> "gi"

\* where it continues when get_index returns
AfterGetIndex(o) ==
    CASE o = "search_content" -> "sc_iter"
      [] o = "get_stats" -> "st_count"
      [] OTHER -> "op_ret"

\* the caller load_index returns to: file_watcher, _reload_index or get_index
AfterLoadIndex(p) ==
    IF p = Watcher THEN "w_swap"
    ELSE IF op[p] = "reload_index" THEN "rl_swap"
    ELSE "gi_set"

\* the facade call of thread t is over (it returned or raised): its frame goes
Finish(t) ==
    /\ pc' = [pc EXCEPT ![t] = "idle"]
    /\ op' = [op EXCEPT ![t] = "none"]
    /\ arg' = [arg EXCEPT ![t] = "none"]
    /\ ret' = [ret EXCEPT ![t] = None]
    /\ index' = [index EXCEPT ![t] = EmptyIndex]
    /\ cindex' = [cindex EXCEPT ![t] = EmptyContent]
    /\ pos' = [pos EXCEPT ![t] = 0]

\* an exception propagates out of p's call stack: every `with` block is left;
\* file_watcher catches it and goes to sleep, a facade call ends with it
Raise(p) ==
    /\ locks' = ReleaseAll(p)
    /\ IF p = Watcher
       THEN /\ pc' = [pc EXCEPT ![p] = "w_check"]
            /\ index' = [index EXCEPT ![p] = EmptyIndex]
            /\ cindex' = [cindex EXCEPT ![p] = EmptyContent]
            /\ pos' = [pos EXCEPT ![p] = 0]
            /\ UNCHANGED <<op, arg, ret>>
       ELSE Finish(p)

(* -------------------------- facade: entry ----------------------------- *)

\* idle request threads are interchangeable: a call runs on the first one
FirstIdle(t) ==
    /\ pc[t] = "idle"
    /\ \A i, j \in 1..Len(ThreadOrder) :
         (ThreadOrder[j] = t /\ i < j) => pc[ThreadOrder[i]] # "idle"

Begin(t, o, a, next) ==
    /\ FirstIdle(t)
    /\ calls < MaxCalls
    /\ calls' = calls + 1
    /\ pc' = [pc EXCEPT ![t] = next]
    /\ op' = [op EXCEPT ![t] = o]
    /\ arg' = [arg EXCEPT ![t] = a]
    /\ UNCHANGED <<storeVars, sharedVars, locks, loadVars, ret, watchVars>>
    /\ UNCHANGED <<callVars, usageVars, docVars>>

\* a call rejected on its input: it returns an error and touches nothing
Rejected(t) ==
    /\ FirstIdle(t)
    /\ calls < MaxCalls
    /\ calls' = calls + 1
    /\ UNCHANGED <<storeVars, sharedVars, locks, pc, op, arg, loadVars, ret,
                   watchVars>>
    /\ UNCHANGED <<callVars, usageVars, docVars>>

list_skills(t) == Begin(t, "list_skills", "none", "tu")

get_skill(t) ==
    \E name \in SafeNames \cup {UnsafeName} :
        IF name = UnsafeName THEN Rejected(t)
        ELSE Begin(t, "get_skill", name, "tu")

get_sub_skill(t) ==
    \E domain \in SafeNames \cup {UnsafeName} :
        IF domain = UnsafeName THEN Rejected(t)
        ELSE Begin(t, "get_sub_skill", domain, "tu")

search_skills(t) ==
    \E valid \in BOOLEAN :
        IF valid THEN Begin(t, "search_skills", "none", "tu")
        ELSE Rejected(t)

search_content(t) ==
    \E valid \in BOOLEAN :
        IF valid THEN Begin(t, "search_content", "none", "tu")
        ELSE Rejected(t)

reload_index(t) == Begin(t, "reload_index", "none", "li_start")

get_stats(t) == Begin(t, "get_stats", "none", "st_copy")

(* --------------------------- track_usage ------------------------------ *)

\* mutant of DequeAppend: the deque has no maxlen
DequeAppend_unbounded(q, e) == Append(q, e)

\* deque.append on a deque with maxlen
DequeAppend(q, e) ==
    IF Len(q) >= SearchesMaxLen THEN Append(Tail(q), e) ELSE Append(q, e)

Tracked(u, o, a) ==
    [tool_calls |-> [u.tool_calls EXCEPT ![o] = @ + 1],
     skill_loads |-> IF o \in {"get_skill", "get_sub_skill"}
                     THEN [u.skill_loads EXCEPT ![a] = @ + 1]
                     ELSE u.skill_loads,
     searches |-> IF o \in {"search_skills", "search_content"}
                  THEN DequeAppend(u.searches, [query |-> "q"])
                  ELSE u.searches]

\* with _STATS_LOCK: the counters of the call are updated
track_usage(t) ==
    /\ pc[t] = "tu"
    /\ CanAcquire("_STATS_LOCK")
    /\ USAGE_STATS' = Tracked(USAGE_STATS, op[t], arg[t])
    /\ pc' = [pc EXCEPT ![t] = AfterTrackUsage(op[t])]
    /\ UNCHANGED <<storeVars, INDEX, CONTENT_INDEX, FILE_MTIMES, locks, op, arg,
                   loadVars, ret, watchVars, calls>>
    /\ UNCHANGED <<callVars, usageVars, docVars>>

(* ----------------------------- get_index ------------------------------ *)

\* mutant of NeedsLoad: get_index reloads on every call
NeedsLoad_always(i) == TRUE

\* `if _INDEX is None`
NeedsLoad(i) == i = None

\* with _INDEX_LOCK: if _INDEX is None, load_index() is called with the lock
\* held; otherwise the cached _INDEX is returned and the lock released
get_index(t) ==
    /\ pc[t] = "gi"
    /\ CanAcquire("_INDEX_LOCK")
    /\ IF NeedsLoad(INDEX)
       THEN /\ locks' = Acquire(t, "_INDEX_LOCK")
            /\ pc' = [pc EXCEPT ![t] = "li_start"]
            /\ ret' = ret
       ELSE /\ ret' = [ret EXCEPT ![t] = INDEX]
            /\ pc' = [pc EXCEPT ![t] = AfterGetIndex(op[t])]
            /\ locks' = locks
    /\ UNCHANGED <<storeVars, sharedVars, op, arg, loadVars, watchVars, calls>>
    /\ UNCHANGED <<callVars, usageVars, docVars>>

\* _INDEX = load_index(); return _INDEX; the lock is released
get_index_set(t) ==
    /\ pc[t] = "gi_set"
    /\ INDEX' = index[t]
    /\ ret' = [ret EXCEPT ![t] = index[t]]
    /\ locks' = Release("_INDEX_LOCK")
    /\ pc' = [pc EXCEPT ![t] = AfterGetIndex(op[t])]
    /\ index' = [index EXCEPT ![t] = EmptyIndex]
    /\ UNCHANGED <<storeVars, CONTENT_INDEX, FILE_MTIMES, USAGE_STATS, op, arg,
                   cindex, pos, watchVars, calls>>
    /\ UNCHANGED <<callVars, usageVars, docVars>>

(* ----------------- load_index and build_content_index ----------------- *)

N == Len(DomainOrder)

\* index = {...}; `if not SKILLS_DIR.exists(): return index` leaves before
\* the content index is touched
load_index_start(p) ==
    /\ pc[p] = "li_start"
    /\ IF rootExists
       THEN /\ index' = [index EXCEPT ![p] = EmptyIndex]
            /\ pos' = [pos EXCEPT ![p] = 1]
            /\ pc' = [pc EXCEPT ![p] = "li_scan"]
       ELSE /\ index' = [index EXCEPT ![p] = [EmptyIndex EXCEPT !.done = TRUE]]
            /\ pos' = pos
            /\ pc' = [pc EXCEPT ![p] = AfterLoadIndex(p)]
    /\ UNCHANGED <<storeVars, sharedVars, locks, op, arg, cindex, ret,
                   watchVars, calls>>
    /\ UNCHANGED <<callVars, usageVars, docVars>>

\* one iteration of `for skill_dir in SKILLS_DIR.iterdir()`: the directory
\* is read into the local index; iterdir() raises when the root has vanished
\* since the exists() test
load_index_scan(p) ==
    /\ pc[p] = "li_scan"
    /\ IF pos[p] = 1 /\ ~rootExists
       THEN /\ Raise(p)
            /\ UNCHANGED <<storeVars, sharedVars, watchVars, calls>>
       ELSE LET d == DomainOrder[pos[p]]
                skills == IF store[<<d, "_meta.json">>] # 0
                          THEN Append(index[p].skills, MetaRecord(d))
                          ELSE index[p].skills
                last == pos[p] = N
            IN  /\ index' = [index EXCEPT ![p] =
                                [@ EXCEPT !.skills = skills, !.done = last]]
                /\ pos' = [pos EXCEPT ![p] = IF last THEN 0 ELSE @ + 1]
                /\ pc' = [pc EXCEPT ![p] = IF last THEN "li_build" ELSE "li_scan"]
                /\ UNCHANGED <<storeVars, sharedVars, locks, op, arg, cindex,
                               ret, watchVars, calls>>
    /\ UNCHANGED <<callVars, usageVars, docVars>>

\* with _CONTENT_INDEX_LOCK: build_content_index() is called with the lock
\* held; it starts with index = {} and the SKILLS_DIR.exists() test
build_content_index_start(p) ==
    /\ pc[p] = "li_build"
    /\ CanAcquire("_CONTENT_INDEX_LOCK")
    /\ locks' = Acquire(p, "_CONTENT_INDEX_LOCK")
    /\ IF rootExists
       THEN /\ cindex' = [cindex EXCEPT ![p] = EmptyContent]
            /\ pos' = [pos EXCEPT ![p] = 1]
            /\ pc' = [pc EXCEPT ![p] = "bc_scan"]
       ELSE /\ cindex' = [cindex EXCEPT ![p] =
                             [EmptyContent EXCEPT !.done = TRUE]]
            /\ pos' = pos
            /\ pc' = [pc EXCEPT ![p] = "li_cswap"]
    /\ UNCHANGED <<storeVars, sharedVars, op, arg, index, ret, watchVars, calls>>
    /\ UNCHANGED <<callVars, usageVars, docVars>>

\* mutant of build_content_index_scan: the entries are written into the
\* global _CONTENT_INDEX as they are read, not into a local index
build_content_index_scan_inplace(p) ==
    /\ pc[p] = "bc_scan"
    /\ IF pos[p] = 1 /\ ~rootExists
       THEN /\ Raise(p)
            /\ UNCHANGED <<storeVars, sharedVars, watchVars, calls>>
       ELSE LET d == DomainOrder[pos[p]]
                entries == IF store[<<d, "SKILL.md">>] # 0
                           THEN cindex[p].entries \cup {ContentEntry(d)}
                           ELSE cindex[p].entries
                last == pos[p] = N
            IN  /\ cindex' = [cindex EXCEPT ![p] =
                                 [entries |-> entries, done |-> last]]
                /\ CONTENT_INDEX' = [entries |-> entries, done |-> last]
                /\ pos' = [pos EXCEPT ![p] = IF last THEN 0 ELSE @ + 1]
                /\ pc' = [pc EXCEPT ![p] = IF last THEN "li_cswap" ELSE "bc_scan"]
                /\ UNCHANGED <<storeVars, INDEX, FILE_MTIMES, USAGE_STATS,
                               locks, op, arg, index, ret, watchVars, calls>>
    /\ UNCHANGED <<callVars, usageVars, docVars>>

\* one iteration of the loop of build_content_index, content lock held
build_content_index_scan(p) ==
    /\ pc[p] = "bc_scan"
    /\ IF pos[p] = 1 /\ ~rootExists
       THEN /\ Raise(p)
            /\ UNCHANGED <<storeVars, sharedVars, watchVars, calls>>
       ELSE LET d == DomainOrder[pos[p]]
                entries == IF store[<<d, "SKILL.md">>] # 0
                           THEN cindex[p].entries \cup {ContentEntry(d)}
                           ELSE cindex[p].entries
                last == pos[p] = N
            IN  /\ cindex' = [cindex EXCEPT ![p] =
                                 [entries |-> entries, done |-> last]]
                /\ pos' = [pos EXCEPT ![p] = IF last THEN 0 ELSE @ + 1]
                /\ pc' = [pc EXCEPT ![p] = IF last THEN "li_cswap" ELSE "bc_scan"]
                /\ UNCHANGED <<storeVars, sharedVars, locks, op, arg, index,
                               ret, watchVars, calls>>
    /\ UNCHANGED <<callVars, usageVars, docVars>>

\* _CONTENT_INDEX = <the built index>; the lock is released; return index.
\* cindex of a request thread goes on holding what its pass has built until
\* its call is over
load_index_swap(p) ==
    /\ pc[p] = "li_cswap"
    /\ CONTENT_INDEX' = cindex[p]
    /\ cindex' = IF p = Watcher THEN [cindex EXCEPT ![p] = EmptyContent]
                  ELSE cindex
    /\ locks' = Release("_CONTENT_INDEX_LOCK")
    /\ pc' = [pc EXCEPT ![p] = AfterLoadIndex(p)]
    /\ UNCHANGED <<storeVars, INDEX, FILE_MTIMES, USAGE_STATS, op, arg, index,
                   pos, ret, watchVars, calls>>
    /\ UNCHANGED <<callVars, usageVars, docVars>>

(* ------------------ the rest of the facade operations ------------------ *)

\* _get_skill: skill_file.exists() / read_text(), before get_index
get_skill_read(t) ==
    /\ pc[t] = "gs_read"
    /\ IF store[<<arg[t], "SKILL.md">>] = 0
       THEN Finish(t)
       ELSE /\ pc' = [pc EXCEPT ![t] = "gi"]
            /\ UNCHANGED <<op, arg, loadVars, ret>>
    /\ UNCHANGED <<storeVars, sharedVars, locks, watchVars, calls>>
    /\ UNCHANGED <<callVars, usageVars, docVars>>

\* the result is built from the index get_index returned, and returned
op_return(t) ==
    /\ pc[t] = "op_ret"
    /\ Finish(t)
    /\ UNCHANGED <<storeVars, sharedVars, locks, watchVars, calls>>
    /\ UNCHANGED <<callVars, usageVars, docVars>>

\* _search_content, with _CONTENT_INDEX_LOCK: a content index that is set is
\* searched and the lock released; if it is None, get_index() is called with
\* the lock held
search_content_lock(t) ==
    /\ pc[t] = "sc_acq"
    /\ CanAcquire("_CONTENT_INDEX_LOCK")
    /\ IF CONTENT_INDEX = None
       THEN /\ locks' = Acquire(t, "_CONTENT_INDEX_LOCK")
            /\ pc' = [pc EXCEPT ![t] = "gi"]
            /\ UNCHANGED <<op, arg, loadVars, ret>>
       ELSE /\ locks' = locks
            /\ Finish(t)
    /\ UNCHANGED <<storeVars, sharedVars, watchVars, calls>>
    /\ UNCHANGED <<callVars, usageVars, docVars>>

\* back from get_index: `for key, entry in _CONTENT_INDEX.items()` searches
\* the index, or raises when it is still None; either way the lock is left
search_content_iterate(t) ==
    /\ pc[t] = "sc_iter"
    /\ locks' = ReleaseAll(t)
    /\ Finish(t)
    /\ UNCHANGED <<storeVars, sharedVars, watchVars, calls>>
    /\ UNCHANGED <<callVars, usageVars, docVars>>

\* _reload_index, with _INDEX_LOCK: _INDEX = new_index; then track_usage.
\* new_index stays a local of the call: index[t] goes on holding it
reload_index_swap(t) ==
    /\ pc[t] = "rl_swap"
    /\ CanAcquire("_INDEX_LOCK")
    /\ INDEX' = index[t]
    /\ pc' = [pc EXCEPT ![t] = "tu"]
    /\ UNCHANGED <<storeVars, CONTENT_INDEX, FILE_MTIMES, USAGE_STATS, locks,
                   op, arg, index, cindex, pos, ret, watchVars, calls>>
    /\ UNCHANGED <<callVars, usageVars, docVars>>

\* with _CONTENT_INDEX_LOCK: content_count = len(_CONTENT_INDEX) ...
reload_index_count(t) ==
    /\ pc[t] = "rl_count"
    /\ CanAcquire("_CONTENT_INDEX_LOCK")
    /\ pc' = [pc EXCEPT ![t] = "rl_ret"]
    /\ UNCHANGED <<storeVars, sharedVars, locks, op, arg, loadVars, ret,
                   watchVars, calls>>
    /\ UNCHANGED <<callVars, usageVars, docVars>>

\* the result reads the global _INDEX again, without a lock: first
\* len(_INDEX["skills"]), then _INDEX.get("validation_errors")
reload_index_return(t) ==
    /\ pc[t] = "rl_ret"
    /\ IF ret[t] = None
       THEN /\ ret' = [ret EXCEPT ![t] = INDEX]
            /\ UNCHANGED <<pc, op, arg, loadVars>>
       ELSE Finish(t)
    /\ UNCHANGED <<storeVars, sharedVars, locks, watchVars, calls>>
    /\ UNCHANGED <<callVars, usageVars, docVars>>

\* mutant of get_stats_copy: get_index is called inside `with _STATS_LOCK`,
\* the lock still held
get_stats_copy_lock_kept(t) ==
    /\ pc[t] = "st_copy"
    /\ CanAcquire("_STATS_LOCK")
    /\ locks' = Acquire(t, "_STATS_LOCK")
    /\ pc' = [pc EXCEPT ![t] = "gi"]
    /\ UNCHANGED <<storeVars, sharedVars, op, arg, loadVars, ret, watchVars,
                   calls>>
    /\ UNCHANGED <<callVars, usageVars, docVars>>

\* _get_stats, with _STATS_LOCK: the counters are copied; then get_index
get_stats_copy(t) ==
    /\ pc[t] = "st_copy"
    /\ CanAcquire("_STATS_LOCK")
    /\ pc' = [pc EXCEPT ![t] = "gi"]
    /\ UNCHANGED <<storeVars, sharedVars, locks, op, arg, loadVars, ret,
                   watchVars, calls>>
    /\ UNCHANGED <<callVars, usageVars, docVars>>

\* with _CONTENT_INDEX_LOCK: len(_CONTENT_INDEX); return stats_copy
get_stats_count(t) ==
    /\ pc[t] = "st_count"
    /\ CanAcquire("_CONTENT_INDEX_LOCK")
    /\ Finish(t)
    /\ UNCHANGED <<storeVars, sharedVars, locks, watchVars, calls>>
    /\ UNCHANGED <<callVars, usageVars, docVars>>

(* ------------------ check_for_changes and file_watcher ----------------- *)

\* check_for_changes returns r, having sampled cur: file_watcher goes on to
\* load_index() if r is true and to time.sleep(5) and the next cycle if not
Returns(r, cur) ==
    /\ returned' = r
    /\ sample' = cur
    /\ prevSample' = sample
    /\ changed' = FALSE
    /\ current_mtimes' = NoFiles
    /\ pc' = [pc EXCEPT ![Watcher] = IF r THEN "li_start" ELSE "w_check"]

\* changed = False; current_mtimes = {}; a missing root returns False at
\* once; otherwise `with _FILE_MTIMES_LOCK:` (no other thread takes it)
check_for_changes_start ==
    /\ pc[Watcher] = "w_check"
    /\ IF rootExists
       THEN /\ CanAcquire("_FILE_MTIMES_LOCK")
            /\ locks' = Acquire(Watcher, "_FILE_MTIMES_LOCK")
            /\ changed' = FALSE
            /\ current_mtimes' = NoFiles
            /\ pos' = [pos EXCEPT ![Watcher] = 1]
            /\ pc' = [pc EXCEPT ![Watcher] = "cf_scan"]
            /\ UNCHANGED <<returned, sample, prevSample>>
       ELSE /\ Returns(FALSE, NoFiles)
            /\ UNCHANGED <<locks, pos>>
    /\ UNCHANGED <<storeVars, sharedVars, op, arg, index, cindex, ret, calls>>
    /\ UNCHANGED <<callVars, usageVars, docVars>>

\* the files of directory d as skill_dir.rglob("*") and stat() see them now
Sampled(cur, d) ==
    [f \in Files |-> IF f[1] = d THEN store[f] ELSE cur[f]]

\* a sampled file of d that is new or whose mtime differs from the stored one
DiffersIn(d) ==
    \E f \in Files : f[1] = d /\ store[f] # 0 /\ FILE_MTIMES[f] # store[f]

\* a stored path that was not sampled this time
Deleted(old, cur) == \E f \in Files : old[f] # 0 /\ cur[f] = 0

\* one iteration of `for skill_dir in SKILLS_DIR.iterdir()`, lock held; after
\* the last one the deleted-files loop, _FILE_MTIMES = current_mtimes, the
\* release and `return changed`
check_for_changes_scan ==
    /\ pc[Watcher] = "cf_scan"
    /\ IF pos[Watcher] = 1 /\ ~rootExists
       THEN /\ Raise(Watcher)
            /\ changed' = FALSE
            /\ UNCHANGED <<storeVars, sharedVars, current_mtimes, returned,
                           sample, prevSample, calls>>
       ELSE LET d == DomainOrder[pos[Watcher]]
                cur == Sampled(current_mtimes, d)
                chg == changed \/ DiffersIn(d)
            IN  IF pos[Watcher] < N
                THEN /\ current_mtimes' = cur
                     /\ changed' = chg
                     /\ pos' = [pos EXCEPT ![Watcher] = @ + 1]
                     /\ UNCHANGED <<storeVars, sharedVars, locks, pc, op, arg,
                                    index, cindex, ret, returned, sample,
                                    prevSample, calls>>
                ELSE /\ FILE_MTIMES' = cur
                     /\ locks' = Release("_FILE_MTIMES_LOCK")
                     /\ Returns(chg \/ Deleted(FILE_MTIMES, cur), cur)
                     /\ pos' = [pos EXCEPT ![Watcher] = 0]
                     /\ UNCHANGED <<storeVars, INDEX, CONTENT_INDEX,
                                    USAGE_STATS, op, arg, index, cindex, ret,
                                    calls>>
    /\ UNCHANGED <<callVars, usageVars, docVars>>

\* with _INDEX_LOCK: _INDEX = new_index; time.sleep(5); next cycle
file_watcher_swap ==
    /\ pc[Watcher] = "w_swap"
    /\ CanAcquire("_INDEX_LOCK")
    /\ INDEX' = index[Watcher]
    /\ index' = [index EXCEPT ![Watcher] = EmptyIndex]
    /\ pc' = [pc EXCEPT ![Watcher] = "w_check"]
    /\ UNCHANGED <<storeVars, CONTENT_INDEX, FILE_MTIMES, USAGE_STATS, locks,
                   op, arg, cindex, pos, ret, watchVars, calls>>
    /\ UNCHANGED <<callVars, usageVars, docVars>>

(* --------------------------- specification ---------------------------- *)

\* a facade call arrives on request thread t
Call(t) ==
    \/ list_skills(t)
    \/ get_skill(t)
    \/ get_sub_skill(t)
    \/ search_skills(t)
    \/ search_content(t)
    \/ reload_index(t)
    \/ get_stats(t)

\* thread p runs the next step of load_index
LoadStep(p) ==
    \/ load_index_start(p)
    \/ load_index_scan(p)
    \/ build_content_index_start(p)
    \/ build_content_index_scan(p)
    \/ load_index_swap(p)

\* request thread t runs the next step of its facade call
ThreadStep(t) ==
    \/ track_usage(t)
    \/ get_index(t)
    \/ get_index_set(t)
    \/ LoadStep(t)
    \/ get_skill_read(t)
    \/ op_return(t)
    \/ search_content_lock(t)
    \/ search_content_iterate(t)
    \/ reload_index_swap(t)
    \/ reload_index_count(t)
    \/ reload_index_return(t)
    \/ get_stats_copy(t)
    \/ get_stats_count(t)

\* the file_watcher thread runs its next step
WatcherStep ==
    \/ check_for_changes_start
    \/ check_for_changes_scan
    \/ LoadStep(Watcher)
    \/ file_watcher_swap

Next ==
    \/ StoreChange
    \/ \E t \in Threads : Call(t)
    \/ \E t \in Threads : ThreadStep(t)
    \/ WatcherStep

Spec == Init /\ [][Next]_vars

\* a read operation arrives on request thread t
ReadCall(t) ==
    \/ list_skills(t)
    \/ get_skill(t)
    \/ get_sub_skill(t)
    \/ search_skills(t)
    \/ search_content(t)
    \/ get_stats(t)

\* request thread t runs the next step of its read operation
ReadStep(t) ==
    \/ track_usage(t)
    \/ get_index(t)
    \/ get_index_set(t)
    \/ LoadStep(t)
    \/ get_skill_read(t)
    \/ op_return(t)
    \/ search_content_lock(t)
    \/ search_content_iterate(t)
    \/ get_stats_copy(t)
    \/ get_stats_count(t)

ReadersNext ==
    \/ StoreChange
    \/ \E t \in Threads : ReadCall(t)
    \/ \E t \in Threads : ReadStep(t)

\* the request threads run read operations only and file_watcher does not
\* run: the index is loaded by get_index alone
ReadersSpec == Init /\ [][ReadersNext]_vars

\* threads are scheduled: a step that stays possible is taken (lock
\* acquisition is not fair: threading.Lock hands the lock to any waiter)
FairSpec ==
    /\ Spec
    /\ \A t \in Threads : WF_vars(ThreadStep(t))
    /\ WF_vars(WatcherStep)

(* ------------------------------ strings -------------------------------- *)

\* A Python str is the sequence of its characters.

\* str.isspace() characters the model uses
Whitespace == {" ", "\n", "\t"}

\* str.lower() on one character
LowerChar(c) ==
    CASE c = "A" -> "a"
      [] c = "B" -> "b"
      [] c = "X" -> "x"
      [] OTHER -> c

\* s.lower()
Lower(s) == [i \in 1..Len(s) |-> LowerChar(s[i])]

\* `sub in s`
Contains(s, sub) ==
    \E i \in 0..(Len(s) - Len(sub)) : SubSeq(s, i + 1, i + Len(sub)) = sub

\* s[:n]
Prefix(s, n) == SubSeq(s, 1, IF Len(s) < n THEN Len(s) ELSE n)

\* the least element of a non-empty set of integers
Least(S) == CHOOSE x \in S : \A y \in S : x <= y

\* the positions from i on at which w occurs in s
Matches(s, w, i) ==
    {j \in i..(Len(s) - Len(w) + 1) : SubSeq(s, j, j + Len(w) - 1) = w}

\* s.count(w) for a non-empty w: occurrences found left to right, the search
\* resuming after the end of each one
RECURSIVE CountFrom(_, _, _)
CountFrom(s, w, i) ==
    IF Matches(s, w, i) = {} THEN 0
    ELSE 1 + CountFrom(s, w, Least(Matches(s, w, i)) + Len(w))

Count(s, w) == CountFrom(s, w, 1)

\* s.split(): the maximal runs of non-whitespace characters, in order; the
\* k-th run goes from the k-th position at which a word starts to the k-th
\* position at which a word ends
Split(s) ==
    LET positions == [j \in 1..Len(s) |-> j]
        IsStart(j) == s[j] \notin Whitespace
                      /\ (j = 1 \/ s[j - 1] \in Whitespace)
        IsEnd(j) == s[j] \notin Whitespace
                    /\ (j = Len(s) \/ s[j + 1] \in Whitespace)
        starts == SelectSeq(positions, IsStart)
        ends == SelectSeq(positions, IsEnd)
    IN  [k \in 1..Len(starts) |-> SubSeq(s, starts[k], ends[k])]

\* `not query or not query.strip()`
IsBlank(s) == \A i \in 1..Len(s) : s[i] \in Whitespace

(* ------------------------- search: the ranking ------------------------- *)

\* Scores are in thousandths: 0.9 is 900.

\* len(query) > 1000
QueryMaxLen == 1000

\* len(query_words) > 100
QueryMaxWords == 100

\* limit = max(1, min(limit, 100))
LimitMax == 100

ClampLimit(l) ==
    LET m == IF l < LimitMax THEN l ELSE LimitMax
    IN  IF 1 > m THEN 1 ELSE m

\* results[:limit]
Take(s, n) == SubSeq(s, 1, IF Len(s) < n THEN Len(s) ELSE n)

\* the elements of s whose score is in scores: those of the highest score
\* in the order they have in s, then those of the next score, and so on
RECURSIVE ByScore(_, _)
ByScore(s, scores) ==
    IF scores = {} THEN <<>>
    ELSE LET top == CHOOSE x \in scores : \A y \in scores : x >= y
             IsTop(e) == e.score = top
         IN  SelectSeq(s, IsTop) \o ByScore(s, scores \ {top})

\* mutant of SortByScore: elements of equal score come out in reverse order
SortByScore_reversed_ties(s) ==
    LET reversed == [i \in 1..Len(s) |-> s[Len(s) + 1 - i]]
    IN  ByScore(reversed, {s[i].score : i \in 1..Len(s)})

\* results.sort(key=lambda x: x["score"], reverse=True): list.sort is stable,
\* also with reverse=True, so an element comes out after the elements of
\* higher score and after the elements of equal score that were before it
SortByScore(s) == ByScore(s, {s[i].score : i \in 1..Len(s)})

(* ---------------------------- _search_skills --------------------------- *)

\* result["sub_skill"] is None or a name: the list of no or of one name
Nothing == <<>>

Some(x) == <<x>>

\* mutant of DomainMatch: the description is looked at before the name
DomainMatch_description_first(skill, q) ==
    IF Contains(Lower(skill.description), q)
    THEN [score |-> 700, match |-> "description"]
    ELSE IF Contains(Lower(skill.name), q)
    THEN [score |-> 900, match |-> "name"]
    ELSE IF \E i \in 1..Len(skill.tags) : Contains(Lower(skill.tags[i]), q)
    THEN [score |-> 800, match |-> "tags"]
    ELSE [score |-> 0, match |-> "None"]

\* the if / elif / elif over name, description and tags of one index record
DomainMatch(skill, q) ==
    IF Contains(Lower(skill.name), q)
    THEN [score |-> 900, match |-> "name"]
    ELSE IF Contains(Lower(skill.description), q)
    THEN [score |-> 700, match |-> "description"]
    ELSE IF \E i \in 1..Len(skill.tags) : Contains(Lower(skill.tags[i]), q)
    THEN [score |-> 800, match |-> "tags"]
    ELSE [score |-> 0, match |-> "None"]

\* mutant of SubMatch: the triggers are looked at before the name
SubMatch_triggers_first(sub, q) ==
    IF \E i \in 1..Len(sub.triggers) : Contains(Lower(sub.triggers[i]), q)
    THEN [score |-> 900, match |-> "triggers"]
    ELSE IF Contains(Lower(sub.name), q)
    THEN [score |-> 850, match |-> "name"]
    ELSE [score |-> 0, match |-> "None"]

\* the if / elif over name and triggers of one sub-skill descriptor
SubMatch(sub, q) ==
    IF Contains(Lower(sub.name), q)
    THEN [score |-> 850, match |-> "name"]
    ELSE IF \E i \in 1..Len(sub.triggers) : Contains(Lower(sub.triggers[i]), q)
    THEN [score |-> 900, match |-> "triggers"]
    ELSE [score |-> 0, match |-> "None"]

\* the entries the inner loop appends for the first i sub-skills of a record
RECURSIVE SubResults(_, _, _)
SubResults(skill, q, i) ==
    IF i = 0 THEN <<>>
    ELSE LET sub == skill.sub_skills[i]
             m == SubMatch(sub, q)
         IN  SubResults(skill, q, i - 1) \o
             (IF m.score > 0
              THEN <<[domain |-> skill.name, sub_skill |-> Some(sub.name),
                      score |-> m.score, match |-> m.match]>>
              ELSE <<>>)

\* the entries one iteration of `for skill in index["skills"]` appends
SkillResults(skill, q) ==
    LET m == DomainMatch(skill, q)
    IN  (IF m.score > 0
         THEN <<[domain |-> skill.name, sub_skill |-> Nothing,
                 score |-> m.score, match |-> m.match]>>
         ELSE <<>>) \o SubResults(skill, q, Len(skill.sub_skills))

\* `results` when the loop `for skill in index["skills"]` has run over the
\* records lo..hi: what it appends for each of them, in their order
RECURSIVE Collected(_, _, _, _)
Collected(sk, q, lo, hi) ==
    IF lo > hi THEN <<>>
    ELSE IF lo = hi THEN SkillResults(sk[lo], q)
    ELSE LET mid == (lo + hi) \div 2
         IN  Collected(sk, q, lo, mid) \o Collected(sk, q, mid + 1, hi)

\* _search_skills(query, limit) on an index whose "skills" is sk
search_skills_result(q, l, sk) ==
    IF IsBlank(q)
    THEN [error |-> "Query cannot be empty", results |-> <<>>]
    ELSE IF Len(q) > QueryMaxLen
    THEN [error |-> "Query too long", results |-> <<>>]
    ELSE [error |-> "None",
          results |-> Take(SortByScore(Collected(sk, Lower(q), 1, Len(sk))),
                           ClampLimit(l))]

(* --------------------------- _search_content --------------------------- *)

\* content[:500]
BoostWindow == 500

\* round(score, 3) of the score num / den thousandths
RoundDiv(num, den) == (2 * num + den) \div (2 * den)

\* sum(content.count(word) for word in query_words), over the first i words
RECURSIVE Occurrences(_, _, _)
Occurrences(c, words, i) ==
    IF i = 0 THEN 0 ELSE Occurrences(c, words, i - 1) + Count(c, words[i])

\* sum(1 for word in query_words if word in content), over the first i words
RECURSIVE WordsFound(_, _, _)
WordsFound(c, words, i) ==
    IF i = 0 THEN 0
    ELSE WordsFound(c, words, i - 1) + (IF Contains(c, words[i]) THEN 1 ELSE 0)

\* mutant of ContentScore: the frequency bonus of the all-words tier has no cap
ContentScore_uncapped(c, q, words) ==
    IF Contains(c, q)
    THEN (IF Contains(Prefix(c, BoostWindow), q) THEN 1200 ELSE 1000)
    ELSE IF \A i \in 1..Len(words) : Contains(c, words[i])
    THEN 700 + Occurrences(c, words, Len(words)) * 50
    ELSE LET matches == WordsFound(c, words, Len(words))
         IN  IF matches > 0 THEN RoundDiv(300 * matches, Len(words)) ELSE 0

\* the score of one content entry: phrase, else all words, else some words
ContentScore(c, q, words) ==
    IF Contains(c, q)
    THEN (IF Contains(Prefix(c, BoostWindow), q) THEN 1200 ELSE 1000)
    ELSE IF \A i \in 1..Len(words) : Contains(c, words[i])
    THEN LET matches == Occurrences(c, words, Len(words))
         IN  700 + (IF matches * 50 < 200 THEN matches * 50 ELSE 200)
    ELSE LET matches == WordsFound(c, words, Len(words))
         IN  IF matches > 0 THEN RoundDiv(300 * matches, Len(words)) ELSE 0

\* what one iteration of `for key, entry in _CONTENT_INDEX.items()` appends
\* (the snippet of an entry is left out)
EntryResults(e, q, words) ==
    LET s == ContentScore(e.content, q, words)
    IN  IF s > 0
        THEN <<[domain |-> e.domain, sub_skill |-> e.sub_skill,
                file |-> e.file, score |-> s]>>
        ELSE <<>>

\* `results` when the loop has run over the entries lo..hi
RECURSIVE ContentCollected(_, _, _, _, _)
ContentCollected(es, q, words, lo, hi) ==
    IF lo > hi THEN <<>>
    ELSE IF lo = hi THEN EntryResults(es[lo], q, words)
    ELSE LET mid == (lo + hi) \div 2
         IN  ContentCollected(es, q, words, lo, mid) \o
             ContentCollected(es, q, words, mid + 1, hi)

\* _search_content(query, limit) on a content index whose entries are es
search_content_result(q, l, es) ==
    IF IsBlank(q)
    THEN [error |-> "Query cannot be empty", results |-> <<>>]
    ELSE IF Len(q) > QueryMaxLen
    THEN [error |-> "Query too long", results |-> <<>>]
    ELSE IF Len(Split(Lower(q))) > QueryMaxWords
    THEN [error |-> "Too many search terms", results |-> <<>>]
    ELSE [error |-> "None",
          results |-> Take(SortByScore(ContentCollected(es, Lower(q),
                                                        Split(Lower(q)),
                                                        1, Len(es))),
                           ClampLimit(l))]

(* ----------------------- search: calls seen alone ---------------------- *)

\* records of index["skills"] and entries of _CONTENT_INDEX a search runs on
MaxListLen == 2

\* the `limit` arguments tried run from -1 to MaxLimit, and around LimitMax
MaxLimit == 3

\* the lists without repetition of at most n elements of pool
Lists(pool, n) ==
    UNION {{s \in [1..k -> pool] : \A i, j \in 1..k : i # j => s[i] # s[j]} :
             k \in 0..n}

\* metadata records as load_index appends them (every field present)
MetaPool ==
    {[name |-> <<"a", " ", "b">>, description |-> <<"x">>,
      tags |-> << <<"a">> >>,
      sub_skills |-> << [name |-> <<"a">>, triggers |-> << <<"a">> >>] >>],
     [name |-> <<"x", "1">>, description |-> <<"a">>,
      tags |-> << <<"A">> >>,
      sub_skills |-> << [name |-> <<"x">>,
                         triggers |-> << <<"x">>, <<"A">> >>] >>],
     [name |-> <<"x", "2">>, description |-> <<"x">>,
      tags |-> << <<"x">>, <<"a">> >>,
      sub_skills |-> <<>>],
     [name |-> <<"A">>, description |-> <<"x">>,
      tags |-> <<>>,
      sub_skills |-> << [name |-> <<"x">>, triggers |-> <<>>],
                        [name |-> <<"a", " ", "x">>, triggers |-> <<>>] >>],
     [name |-> <<"x", "3">>, description |-> <<"B">>,
      tags |-> <<>>,
      sub_skills |-> <<>>]}

\* an index of LimitMax + 1 records, so that a result list can be cut at
\* LimitMax: the odd ones match "a" by name, the even ones by a tag
BigIndex ==
    [i \in 1..(LimitMax + 1) |->
        [name |-> IF i % 2 = 1 THEN <<"a", ToString(i)>>
                  ELSE <<"x", ToString(i)>>,
         description |-> <<"x">>,
         tags |-> << <<"a">> >>,
         sub_skills |-> <<>>]]

SkillLists == Lists(MetaPool, MaxListLen) \cup {BigIndex}

\* BoostWindow characters that match no query
Padding == [i \in 1..BoostWindow |-> "."]

\* SKILL.md contents as build_content_index stores them (lower-cased)
ContentPool ==
    {[domain |-> "e1", sub_skill |-> None, file |-> "SKILL.md",
      content |-> <<"a", " ", "b">>],
     [domain |-> "e2", sub_skill |-> None, file |-> "SKILL.md",
      content |-> <<"b", " ", "a">>],
     [domain |-> "e3", sub_skill |-> None, file |-> "SKILL.md",
      content |-> <<"a">>],
     [domain |-> "e4", sub_skill |-> None, file |-> "SKILL.md",
      content |-> <<"x">>],
     [domain |-> "e5", sub_skill |-> None, file |-> "SKILL.md",
      content |-> Padding \o <<"a", " ", "b">>],
     [domain |-> "e6", sub_skill |-> None, file |-> "SKILL.md",
      content |-> <<"a", "a", "a", "a", "a", "a", " ", "b", "a">>],
     [domain |-> "e7", sub_skill |-> None, file |-> "SKILL.md",
      content |-> SubSeq(Padding, 1, BoostWindow - 2) \o <<"a", " ", "b">>]}

\* a content index of LimitMax + 1 entries that all contain "a"
BigContent ==
    [i \in 1..(LimitMax + 1) |->
        [domain |-> ToString(i), sub_skill |-> None, file |-> "SKILL.md",
         content |-> IF i % 2 = 1 THEN <<"a">> ELSE <<"b", "a">>]]

ContentLists == Lists(ContentPool, MaxListLen) \cup {BigContent}

\* queries the validation accepts
AcceptedQueries ==
    {<<"a">>, <<"A">>, <<"b">>, <<"x">>, <<"c">>,
     <<"a", " ", "b">>, <<"b", " ", "a">>, <<"a", " ", " ", "b">>,
     <<" ", "a">>, <<"a", " ", "c">>, <<"c", " ", "a", " ", "b">>,
     <<"a", " ", "c", " ", "c", " ", "c", " ", "c", " ", "c", " ", "c">>}

\* queries it rejects: empty, blank, too long, too many words
RejectedQueries ==
    {<<>>, <<" ">>, <<" ", "\n">>,
     [i \in 1..(QueryMaxLen + 1) |-> "a"],
     [i \in 1..(2 * QueryMaxWords + 1) |-> IF i % 2 = 1 THEN "a" ELSE " "]}

Limits == (-1..MaxLimit) \cup {LimitMax, LimitMax + 1}

\* the arguments and the index of one search call
SearchInputs ==
    /\ \/ index_skills \in SkillLists /\ content = <<>>
       \/ index_skills = <<>> /\ content \in ContentLists
    /\ query \in AcceptedQueries \cup RejectedQueries
    /\ limit \in Limits
    /\ results = None
    /\ last_call = None
    /\ NoRecord
    /\ NoDocument

\* the call is _search_skills(query, limit)
SearchSkills ==
    /\ results = None
    /\ results' = [tool |-> "search_skills",
                   value |-> search_skills_result(query, limit, index_skills)]
    /\ UNCHANGED <<storeVars, sharedVars, locks, pc, op, arg, loadVars, ret,
                   watchVars, calls, index_skills, content, query, limit,
                   last_call, usageVars, docVars>>

\* the call is _search_content(query, limit)
SearchContent ==
    /\ results = None
    /\ results' = [tool |-> "search_content",
                   value |-> search_content_result(query, limit, content)]
    /\ UNCHANGED <<storeVars, sharedVars, locks, pc, op, arg, loadVars, ret,
                   watchVars, calls, index_skills, content, query, limit,
                   last_call, usageVars, docVars>>

SearchNext == SearchSkills \/ SearchContent

SearchInit == ServerStart /\ SearchInputs

SearchSpec == SearchInit /\ [][SearchNext]_vars

(* ------------------- facade calls, one after another ------------------- *)

\* Each facade operation run without interruption is a function of its
\* arguments, of the three module globals and of the document store.  S is
\* the record of the globals; an outcome holds the globals the call leaves,
\* the value it returns and the kinds of filesystem access it has made.

\* facade calls made over one behaviour
MaxFacadeCalls == 3

\* requests in one get_skills_batch call
MaxBatch == 2

\* the characters of the names callers pass
Chars(name) ==
    CASE name = "d1" -> <<"d", "1">>
      [] name = "d2" -> <<"d", "2">>
      [] name = "d1\n" -> <<"d", "1", "\n">>
      [] name = "../x" -> <<".", ".", "/", "x">>
      [] name = "" -> <<>>

\* the character class [a-zA-Z0-9\-_]
NameChars ==
    {"a", "b", "c", "d", "e", "f", "g", "h", "i", "j", "k", "l", "m",
     "n", "o", "p", "q", "r", "s", "t", "u", "v", "w", "x", "y", "z",
     "A", "B", "C", "D", "E", "F", "G", "H", "I", "J", "K", "L", "M",
     "N", "O", "P", "Q", "R", "S", "T", "U", "V", "W", "X", "Y", "Z",
     "0", "1", "2", "3", "4", "5", "6", "7", "8", "9", "-", "_"}

\* re.match(r'^[a-zA-Z0-9\-_]+$', name) on a non-empty name: `$` matches at
\* the end of the string and also just before a newline that ends it
is_safe_skill_name(name) ==
    LET s == Chars(name)
        body == IF s # <<>> /\ s[Len(s)] = "\n"
                THEN SubSeq(s, 1, Len(s) - 1) ELSE s
    IN  /\ s # <<>>
        /\ body # <<>>
        /\ \A i \in 1..Len(body) : body[i] \in NameChars

\* the module globals as the record a call works on
Globals ==
    [INDEX |-> INDEX, CONTENT_INDEX |-> CONTENT_INDEX,
     USAGE_STATS |-> USAGE_STATS]

\* counter[key] += 1, the key being created at 0 when it is missing
Bump(counter, key) ==
    [k \in DOMAIN counter \cup {key} |->
        IF k = key
        THEN (IF key \in DOMAIN counter THEN counter[key] ELSE 0) + 1
        ELSE counter[k]]

\* the body of track_usage(tool_name, details): domain and q are the
\* "domain" and "query" entries of details, Nothing when there is none
TrackUsage(S, tool_name, domain, q) ==
    [S EXCEPT !.USAGE_STATS =
        [tool_calls |-> Bump(@.tool_calls, tool_name),
         skill_loads |-> IF domain = Nothing THEN @.skill_loads
                         ELSE Bump(@.skill_loads, domain[1]),
         searches |-> IF q = Nothing THEN @.searches
                      ELSE DequeAppend(@.searches, [query |-> q[1]])]]

\* mutant of load_index_result: the records read are appended to the index
\* in use instead of to a new one
load_index_result_appending(S) ==
    IF rootExists
    THEN [index |-> IF S.INDEX = None THEN LoadOf(store)
                    ELSE [LoadOf(store) EXCEPT
                             !.skills = S.INDEX.skills \o @],
          content |-> BuildOf(store)]
    ELSE [index |-> [EmptyIndex EXCEPT !.done = TRUE],
          content |-> S.CONTENT_INDEX]

\* load_index() run without interruption: the index it returns and the
\* _CONTENT_INDEX it leaves (untouched when SKILLS_DIR does not exist)
load_index_result(S) ==
    IF rootExists
    THEN [index |-> LoadOf(store), content |-> BuildOf(store)]
    ELSE [index |-> [EmptyIndex EXCEPT !.done = TRUE],
          content |-> S.CONTENT_INDEX]

\* the globals after get_index()
get_index_result(S) ==
    IF NeedsLoad(S.INDEX)
    THEN [S EXCEPT !.INDEX = load_index_result(S).index,
                   !.CONTENT_INDEX = load_index_result(S).content]
    ELSE S

\* the filesystem access of get_index(): a load when _INDEX is None
get_index_io(S) == IF NeedsLoad(S.INDEX) THEN {"load_index"} ELSE {}

Outcome(S, value, io) == [state |-> S, value |-> value, io |-> io]

\* len(_CONTENT_INDEX) if _CONTENT_INDEX else 0
content_count(S) ==
    IF S.CONTENT_INDEX = None THEN 0
    ELSE Cardinality(S.CONTENT_INDEX.entries)

\* skill_file.exists() for the SKILL.md or _meta.json of directory `name`
FileExists(name, file) == name \in Domains /\ store[<<name, file>>] # 0

\* [s["name"] for s in index["skills"]]
SkillNames(i) == [k \in 1..Len(i.skills) |-> i.skills[k].name]

_list_skills(S) ==
    LET T == TrackUsage(S, "list_skills", Nothing, Nothing)
        G == get_index_result(T)
    IN  Outcome(G, [skills |-> SkillNames(G.INDEX)], get_index_io(T))

_get_skill(S, name) ==
    IF ~is_safe_skill_name(name)
    THEN Outcome(S, [error |-> "Invalid skill name"], {})
    ELSE LET T == TrackUsage(S, "get_skill", Some(name), Nothing)
             G == get_index_result(T)
         IN  IF ~FileExists(name, "SKILL.md")
             THEN Outcome(T, [error |-> "Skill not found"], {"exists"})
             ELSE Outcome(G, [name |-> name,
                              content |-> store[<<name, "SKILL.md">>]],
                          {"exists", "read_text"} \cup get_index_io(T))

\* the index records carry no sub_skills list: meta.get("sub_skills", [])
\* is empty and the sub-skill is never found
_get_sub_skill(S, domain, sub_skill) ==
    IF ~is_safe_skill_name(domain)
    THEN Outcome(S, [error |-> "Invalid domain name"], {})
    ELSE LET T == TrackUsage(S, "get_sub_skill", Some(domain), Nothing)
             G == get_index_result(T)
         IN  IF \E k \in 1..Len(G.INDEX.skills) :
                    G.INDEX.skills[k].name = domain
             THEN Outcome(G, [error |-> "Sub-skill not found"],
                          get_index_io(T))
             ELSE Outcome(G, [error |-> "Domain not found"],
                          get_index_io(T))

\* the loop of _get_skills_batch over the first n requests
RECURSIVE BatchLoop(_, _, _)
BatchLoop(S, requests, n) ==
    IF n = 0 THEN Outcome(S, <<>>, {})
    ELSE LET before == BatchLoop(S, requests, n - 1)
             req == requests[n]
             one == IF req.sub_skill # Nothing
                    THEN _get_sub_skill(before.state, req.domain,
                                        req.sub_skill[1])
                    ELSE _get_skill(before.state, req.domain)
         IN  Outcome(one.state, Append(before.value, one.value),
                     before.io \cup one.io)

_get_skills_batch(S, requests) ==
    LET T == TrackUsage(S, "get_skills_batch", Nothing, Nothing)
        loop == BatchLoop(T, requests, Len(requests))
    IN  Outcome(loop.state, [results |-> loop.value], loop.io)

\* the result entries are those of search_skills_result on the index read
_search_skills(S, q) ==
    IF IsBlank(q)
    THEN Outcome(S, [error |-> "Query cannot be empty", results |-> <<>>], {})
    ELSE IF Len(q) > QueryMaxLen
    THEN Outcome(S, [error |-> "Query too long", results |-> <<>>], {})
    ELSE LET T == TrackUsage(S, "search_skills", Nothing, Some(q))
             G == get_index_result(T)
         IN  Outcome(G, [query |-> q, searched |-> G.INDEX.skills],
                     get_index_io(T))

\* the result entries are those of search_content_result on the content
\* index; iterating a _CONTENT_INDEX that is still None raises
_search_content(S, q) ==
    IF IsBlank(q)
    THEN Outcome(S, [error |-> "Query cannot be empty", results |-> <<>>], {})
    ELSE IF Len(q) > QueryMaxLen
    THEN Outcome(S, [error |-> "Query too long", results |-> <<>>], {})
    ELSE IF Len(Split(Lower(q))) > QueryMaxWords
    THEN Outcome(S, [error |-> "Too many search terms", results |-> <<>>], {})
    ELSE LET T == TrackUsage(S, "search_content", Nothing, Some(q))
             G == IF T.CONTENT_INDEX = None THEN get_index_result(T) ELSE T
             io == IF T.CONTENT_INDEX = None THEN get_index_io(T) ELSE {}
         IN  IF G.CONTENT_INDEX = None
             THEN Outcome(G, [raised |-> "AttributeError"], io)
             ELSE Outcome(G, [query |-> q,
                              searched |-> G.CONTENT_INDEX.entries], io)

_reload_index(S) ==
    LET new_index == load_index_result(S)
        L == [S EXCEPT !.INDEX = new_index.index,
                       !.CONTENT_INDEX = new_index.content]
        T == TrackUsage(L, "reload_index", Nothing, Nothing)
    IN  Outcome(T, [status |-> "reloaded",
                    skill_count |-> Len(T.INDEX.skills),
                    content_files_indexed |-> content_count(T),
                    validation_errors |-> T.INDEX.validation_errors],
                {"load_index"})

\* list(_USAGE_STATS["searches"])[-10:]
RecentSearches(searches) ==
    SubSeq(searches, IF Len(searches) > 10 THEN Len(searches) - 9 ELSE 1,
           Len(searches))

\* mutant of _get_stats: the counts are those of a fresh load_index(), which
\* is installed
_get_stats_reloading(S) ==
    LET G == [S EXCEPT !.INDEX = load_index_result(S).index,
                       !.CONTENT_INDEX = load_index_result(S).content]
    IN  Outcome(G, [tool_calls |-> S.USAGE_STATS.tool_calls,
                    skill_loads |-> S.USAGE_STATS.skill_loads,
                    recent_searches |->
                        RecentSearches(S.USAGE_STATS.searches),
                    total_skills |-> Len(G.INDEX.skills),
                    content_files_indexed |-> content_count(G)],
                {"load_index"})

_get_stats(S) ==
    LET G == get_index_result(S)
    IN  Outcome(G, [tool_calls |-> S.USAGE_STATS.tool_calls,
                    skill_loads |-> S.USAGE_STATS.skill_loads,
                    recent_searches |->
                        RecentSearches(S.USAGE_STATS.searches),
                    total_skills |-> Len(G.INDEX.skills),
                    content_files_indexed |-> content_count(G)],
                get_index_io(S))

\* the directories of SKILLS_DIR: the domains that hold a file
Directories == {d \in Domains : \E f \in FileNames : store[<<d, f>>] # 0}

\* SKILLS_DIR.iterdir() raises when the directory does not exist
_validate_skills(S) ==
    IF ~rootExists
    THEN Outcome(S, [raised |-> "FileNotFoundError"], {"iterdir"})
    ELSE LET missing == {<<d, f>> \in Directories \X FileNames :
                            store[<<d, f>>] = 0}
         IN  Outcome(S, [valid |-> missing = {}, errors |-> missing,
                         skills_checked |-> Cardinality(Directories)],
                     {"iterdir"})

\* the names and queries callers pass
CallerNames == {"d1", "d1\n", "../x", ""}

CallerQueries ==
    {<<"a">>, <<>>, <<" ", "\n">>,
     [i \in 1..(QueryMaxLen + 1) |-> "a"],
     [i \in 1..(2 * QueryMaxWords + 1) |-> IF i % 2 = 1 THEN "a" ELSE " "]}

BatchRequests ==
    {[domain |-> "d1", sub_skill |-> Nothing],
     [domain |-> "d1\n", sub_skill |-> Some("s1")]}

\* the tool `tool` is called with `args` and runs to its end with outcome
\* out; last_call keeps the call, the number of store modifications made
\* before it and the call it came after
Called(tool, args, out) ==
    /\ calls < MaxFacadeCalls
    /\ calls' = calls + 1
    /\ INDEX' = out.state.INDEX
    /\ CONTENT_INDEX' = out.state.CONTENT_INDEX
    /\ USAGE_STATS' = out.state.USAGE_STATS
    /\ last_call' = [tool |-> tool, args |-> args, value |-> out.value,
                     io |-> out.io, clock |-> clock,
                     after |-> IF last_call = None THEN None
                               ELSE [tool |-> last_call.tool,
                                     clock |-> last_call.clock]]
    /\ UNCHANGED <<storeVars, FILE_MTIMES, locks, pc, op, arg, loadVars, ret,
                   watchVars, index_skills, content, query, limit, results,
                   usageVars, docVars>>

call_list_skills == Called("list_skills", <<>>, _list_skills(Globals))

call_get_skill ==
    \E name \in CallerNames :
        Called("get_skill", <<name>>, _get_skill(Globals, name))

call_get_sub_skill ==
    \E domain \in CallerNames :
        Called("get_sub_skill", <<domain, "s1">>,
               _get_sub_skill(Globals, domain, "s1"))

call_get_skills_batch ==
    \E requests \in Lists(BatchRequests, MaxBatch) :
        Called("get_skills_batch", <<requests>>,
               _get_skills_batch(Globals, requests))

call_search_skills ==
    \E q \in CallerQueries :
        Called("search_skills", <<q>>, _search_skills(Globals, q))

call_search_content ==
    \E q \in CallerQueries :
        Called("search_content", <<q>>, _search_content(Globals, q))

call_reload_index == Called("reload_index", <<>>, _reload_index(Globals))

call_get_stats == Called("get_stats", <<>>, _get_stats(Globals))

call_validate_skills ==
    Called("validate_skills", <<>>, _validate_skills(Globals))

FacadeCall ==
    \/ call_list_skills
    \/ call_get_skill
    \/ call_get_sub_skill
    \/ call_get_skills_batch
    \/ call_search_skills
    \/ call_search_content
    \/ call_reload_index
    \/ call_get_stats
    \/ call_validate_skills

FacadeNext == StoreChange \/ FacadeCall

\* one request thread, no file_watcher: the calls run one after another
FacadeSpec == Init /\ [][FacadeNext]_vars

(* ----------- track_usage and _get_stats, statement by statement -------- *)

\* The request threads run track_usage and _get_stats; the statements of a
\* `with _STATS_LOCK:` block are separate steps, the lock being held from
\* the first to the last.  A query is told apart by a serial number.

\* track_usage and _get_stats calls made over one behaviour
MaxRecords == 3

\* the searches recorded before the behaviour starts: none, or one less than
\* the buffer holds
RecordedBefore == {0, SearchesMaxLen - 1}

\* the process has served n searches and nothing else
UsageInit ==
    /\ Started
    /\ NoCall
    /\ NoDocument
    /\ stats_copy = None
    /\ \E n \in RecordedBefore :
         /\ USAGE_STATS = UsageAfter(n)
         /\ recorded = [i \in 1..n |-> i]
         /\ committed = UsageAfter(n)
    /\ tool_count = [t \in Threads |-> 0]

\* the details of the track_usage calls of the facade: none, a domain, a query
Details ==
    {[tool |-> "list_skills", domain |-> Nothing, query |-> Nothing],
     [tool |-> "get_skill", domain |-> Some("d1"), query |-> Nothing],
     [tool |-> "search_skills", domain |-> Nothing,
      query |-> Some(SearchesMaxLen + calls + 1)]}

\* a facade operation on thread t reaches its track_usage call
track_usage_call(t) ==
    /\ FirstIdle(t)
    /\ calls < MaxRecords
    /\ calls' = calls + 1
    /\ \E d \in Details :
         /\ op' = [op EXCEPT ![t] = d.tool]
         /\ arg' = [arg EXCEPT ![t] = d]
    /\ pc' = [pc EXCEPT ![t] = "tu_lock"]
    /\ UNCHANGED <<storeVars, sharedVars, locks, loadVars, ret, watchVars,
                   callVars, docVars, usageVars>>

\* mutant of track_usage_lock: the body of track_usage runs without
\* _STATS_LOCK
track_usage_lock_skipped(t) ==
    /\ pc[t] = "tu_lock"
    /\ pc' = [pc EXCEPT ![t] = "tu_calls"]
    /\ UNCHANGED <<storeVars, sharedVars, locks, op, arg, loadVars, ret,
                   watchVars, calls, callVars, docVars, usageVars>>

\* with _STATS_LOCK:
track_usage_lock(t) ==
    /\ pc[t] = "tu_lock"
    /\ CanAcquire("_STATS_LOCK")
    /\ locks' = Acquire(t, "_STATS_LOCK")
    /\ pc' = [pc EXCEPT ![t] = "tu_calls"]
    /\ UNCHANGED <<storeVars, sharedVars, op, arg, loadVars, ret, watchVars,
                   calls, callVars, docVars, usageVars>>

\* _USAGE_STATS["tool_calls"][tool_name] += 1 is a read, an addition and a
\* store, and a thread switch can fall between them: this is the read
track_usage_read(t) ==
    /\ pc[t] = "tu_calls"
    /\ tool_count' = [tool_count EXCEPT ![t] = USAGE_STATS.tool_calls[op[t]]]
    /\ pc' = [pc EXCEPT ![t] = "tu_store"]
    /\ UNCHANGED <<storeVars, sharedVars, locks, op, arg, loadVars, ret,
                   watchVars, calls, callVars, docVars, stats_copy, recorded,
                   committed>>

\* the store of _USAGE_STATS["tool_calls"][tool_name] += 1: the value read,
\* plus one
track_usage_tool_calls(t) ==
    /\ pc[t] = "tu_store"
    /\ USAGE_STATS' = [USAGE_STATS EXCEPT
                          !.tool_calls[op[t]] = tool_count[t] + 1]
    /\ pc' = [pc EXCEPT ![t] = "tu_details"]
    /\ UNCHANGED <<storeVars, INDEX, CONTENT_INDEX, FILE_MTIMES, locks, op,
                   arg, loadVars, ret, watchVars, calls, callVars, docVars, usageVars>>

\* if details: skill_loads[domain] += 1; searches.append(...); the block is
\* left and the lock released
track_usage_details(t) ==
    /\ pc[t] = "tu_details"
    /\ USAGE_STATS' =
          [USAGE_STATS EXCEPT
              !.skill_loads = IF arg[t].domain = Nothing THEN @
                              ELSE Bump(@, arg[t].domain[1]),
              !.searches = IF arg[t].query = Nothing THEN @
                           ELSE DequeAppend(@, [query |-> arg[t].query[1]])]
    /\ recorded' = IF arg[t].query = Nothing THEN recorded
                   ELSE Append(recorded, arg[t].query[1])
    /\ committed' = USAGE_STATS'
    /\ tool_count' = [tool_count EXCEPT ![t] = 0]
    /\ locks' = Release("_STATS_LOCK")
    /\ pc' = [pc EXCEPT ![t] = "idle"]
    /\ op' = [op EXCEPT ![t] = "none"]
    /\ arg' = [arg EXCEPT ![t] = "none"]
    /\ UNCHANGED <<storeVars, INDEX, CONTENT_INDEX, FILE_MTIMES, loadVars,
                   ret, watchVars, calls, callVars, docVars, stats_copy>>

\* a _get_stats call arrives on thread t
get_stats_call(t) ==
    /\ FirstIdle(t)
    /\ calls < MaxRecords
    /\ calls' = calls + 1
    /\ op' = [op EXCEPT ![t] = "get_stats"]
    /\ pc' = [pc EXCEPT ![t] = "st_lock"]
    /\ UNCHANGED <<storeVars, sharedVars, locks, arg, loadVars, ret,
                   watchVars, callVars, docVars, usageVars>>

\* what a field of the returned dict is: a new object that holds the value
\* read, or the live object of _USAGE_STATS itself
Copy(value) == [by |-> "copy", value |-> value]

Reference == [by |-> "reference"]

\* mutant of StatsCopy: tool_calls is returned without .copy()
StatsCopy_tool_calls_shared(u) ==
    [tool_calls |-> Reference,
     skill_loads |-> Copy(u.skill_loads),
     recent_searches |-> Copy(RecentSearches(u.searches))]

\* stats_copy = {"tool_calls": ....copy(), "skill_loads": ....copy(),
\* "recent_searches": list(...)[-10:]}
StatsCopy(u) ==
    [tool_calls |-> Copy(u.tool_calls),
     skill_loads |-> Copy(u.skill_loads),
     recent_searches |-> Copy(RecentSearches(u.searches))]

\* what a reader of the returned dict c sees in it now
Shown(c) ==
    [tool_calls |-> IF c.tool_calls.by = "copy" THEN c.tool_calls.value
                    ELSE USAGE_STATS.tool_calls,
     skill_loads |-> IF c.skill_loads.by = "copy" THEN c.skill_loads.value
                     ELSE USAGE_STATS.skill_loads,
     recent_searches |->
         IF c.recent_searches.by = "copy" THEN c.recent_searches.value
         ELSE RecentSearches(USAGE_STATS.searches)]

\* with _STATS_LOCK: stats_copy = {...}; the block only reads _USAGE_STATS
get_stats_locked_copy(t) ==
    /\ pc[t] = "st_lock"
    /\ CanAcquire("_STATS_LOCK")
    /\ stats_copy' = StatsCopy(USAGE_STATS)
    /\ pc' = [pc EXCEPT ![t] = "st_index"]
    /\ UNCHANGED <<storeVars, sharedVars, locks, op, arg, loadVars, ret,
                   watchVars, calls, callVars, docVars, recorded, committed,
                   tool_count>>

\* index = get_index(); the two sizes are added and stats_copy is returned
get_stats_return(t) ==
    /\ pc[t] = "st_index"
    /\ INDEX' = get_index_result(Globals).INDEX
    /\ CONTENT_INDEX' = get_index_result(Globals).CONTENT_INDEX
    /\ pc' = [pc EXCEPT ![t] = "idle"]
    /\ op' = [op EXCEPT ![t] = "none"]
    /\ UNCHANGED <<storeVars, FILE_MTIMES, USAGE_STATS, locks, arg, loadVars,
                   ret, watchVars, calls, callVars, docVars, usageVars>>

UsageStep(t) ==
    \/ track_usage_call(t)
    \/ track_usage_lock(t)
    \/ track_usage_read(t)
    \/ track_usage_tool_calls(t)
    \/ track_usage_details(t)
    \/ get_stats_call(t)
    \/ get_stats_locked_copy(t)
    \/ get_stats_return(t)

UsageNext == \E t \in Threads : UsageStep(t)

UsageSpec == UsageInit /\ [][UsageNext]_vars

(* --------------------- _meta.json by what it holds --------------------- *)

\* What json.loads returns is a record of the Python type and the value: a
\* str is the sequence of its characters, a list the sequence of its items,
\* a dict the function from its keys to their values.

JStr(s) == [type |-> "str", val |-> s]

JInt(n) == [type |-> "int", val |-> n]

JNull == [type |-> "NoneType", val |-> 0]

JBool(b) == [type |-> "bool", val |-> b]

JList(items) == [type |-> "list", val |-> items]

JDict(fields) == [type |-> "dict", val |-> fields]

\* the keys the code names, as the str each of them is
Key(k) ==
    CASE k = "name" -> <<"n", "a", "m", "e">>
      [] k = "description" ->
           <<"d", "e", "s", "c", "r", "i", "p", "t", "i", "o", "n">>
      [] k = "tags" -> <<"t", "a", "g", "s">>
      [] k = "sub_skills" ->
           <<"s", "u", "b", "_", "s", "k", "i", "l", "l", "s">>
      [] k = "file" -> <<"f", "i", "l", "e">>
      [] k = "triggers" -> <<"t", "r", "i", "g", "g", "e", "r", "s">>

\* the types `k in v` is defined on, k being a str
Containers == {"dict", "list", "str"}

\* `k in v`: a key of a dict, an item of a list, a substring of a str
PyIn(k, v) ==
    CASE v.type = "dict" -> k \in DOMAIN v.val
      [] v.type = "list" ->
           \E i \in 1..Len(v.val) :
               v.val[i].type = "str" /\ v.val[i].val = Key(k)
      [] v.type = "str" -> Contains(v.val, Key(k))
      [] OTHER -> FALSE

\* `v[k]` with a str k is defined on a dict alone
Subscriptable(v) == v.type = "dict"

\* one message of validate_meta: the rule that wrote it, the field it names
\* and, for an element of sub_skills, the index it names
Error(skill_name, rule, field, i) ==
    [skill |-> skill_name, rule |-> rule, field |-> field, index |-> i]

\* for i, sub in enumerate(items): for field in ("name", "file"):
\*     if field not in sub: errors.append(...)
RECURSIVE SubSkillErrors(_, _, _)
SubSkillErrors(skill_name, items, n) ==
    IF n = 0 THEN <<>>
    ELSE LET sub == items[n]
             missing == SelectSeq(<<"name", "file">>,
                                  LAMBDA f : ~PyIn(f, sub))
         IN  SubSkillErrors(skill_name, items, n - 1)
             \o [j \in 1..Len(missing) |->
                   Error(skill_name, "sub_skill", missing[j], n - 1)]

\* validate_meta raises TypeError where `in` or a subscript is applied to a
\* value it is not defined on
validate_meta_raises(m) ==
    \/ m.type \notin Containers
    \/ /\ ~Subscriptable(m)
       /\ \E k \in {"name", "tags", "sub_skills"} : PyIn(k, m)
    \/ /\ m.type = "dict"
       /\ "sub_skills" \in DOMAIN m.val
       /\ m.val["sub_skills"].type = "list"
       /\ \E i \in 1..Len(m.val["sub_skills"].val) :
              m.val["sub_skills"].val[i].type \notin Containers

\* for field in META_SCHEMA["required"]: if field not in meta: ...
RequiredErrors(m, skill_name) ==
    LET absent == SelectSeq(<<"name", "description">>,
                            LAMBDA f : ~PyIn(f, m))
    IN  [j \in 1..Len(absent) |->
           Error(skill_name, "required", absent[j], -1)]

\* if "name" in meta and meta["name"] != skill_name: ...
NameErrors(m, skill_name) ==
    IF PyIn("name", m)
       /\ ~(m.val["name"].type = "str"
            /\ m.val["name"].val = Chars(skill_name))
    THEN <<Error(skill_name, "name", "name", -1)>>
    ELSE <<>>

\* mutant of TagsErrors: `not any(...)` in the place of `not all(...)`
TagsErrors_not_any(m, skill_name) ==
    IF ~PyIn("tags", m) THEN <<>>
    ELSE IF m.val["tags"].type # "list"
    THEN <<Error(skill_name, "tags", "list", -1)>>
    ELSE IF ~\E i \in 1..Len(m.val["tags"].val) :
                m.val["tags"].val[i].type = "str"
    THEN <<Error(skill_name, "tags", "strings", -1)>>
    ELSE <<>>

\* if "tags" in meta: if not isinstance(meta["tags"], list): ...
\* elif not all(isinstance(t, str) for t in meta["tags"]): ...
TagsErrors(m, skill_name) ==
    IF ~PyIn("tags", m) THEN <<>>
    ELSE IF m.val["tags"].type # "list"
    THEN <<Error(skill_name, "tags", "list", -1)>>
    ELSE IF \E i \in 1..Len(m.val["tags"].val) :
                m.val["tags"].val[i].type # "str"
    THEN <<Error(skill_name, "tags", "strings", -1)>>
    ELSE <<>>

\* if "sub_skills" in meta: if not isinstance(meta["sub_skills"], list): ...
\* else: the loop over its elements
SubSkillsErrors(m, skill_name) ==
    IF ~PyIn("sub_skills", m) THEN <<>>
    ELSE IF m.val["sub_skills"].type # "list"
    THEN <<Error(skill_name, "sub_skills", "list", -1)>>
    ELSE SubSkillErrors(skill_name, m.val["sub_skills"].val,
                        Len(m.val["sub_skills"].val))

\* validate_meta(meta, skill_name): the exception it raises, if any, and the
\* messages it returns otherwise, in the order they are appended
validate_meta(m, skill_name) ==
    IF validate_meta_raises(m)
    THEN [raised |-> Some("TypeError"), errors |-> <<>>]
    ELSE [raised |-> Nothing,
          errors |-> RequiredErrors(m, skill_name)
                     \o NameErrors(m, skill_name)
                     \o TagsErrors(m, skill_name)
                     \o SubSkillsErrors(m, skill_name)]

(* ---------------------- validate_meta seen alone ----------------------- *)

\* a key the object does not have
Absent == [type |-> "absent", val |-> 0]

\* the object with the four fields, those that are Absent left out
Object(n, d, t, s) ==
    LET field == [name |-> n, description |-> d, tags |-> t,
                  sub_skills |-> s]
        keys == {k \in DOMAIN field : field[k].type # "absent"}
    IN  JDict([k \in keys |-> field[k]])

\* {"name": name, "file": file}
SubSkill(name, file) == JDict([name |-> JStr(name), file |-> JStr(file)])

NameValues == {Absent, JStr(Chars("d1")), JStr(Chars("d2")), JInt(5)}

DescriptionValues == {Absent, JStr(<<"x">>), JNull}

TagsValues ==
    {Absent, JList(<<>>), JList(<<JStr(<<"t">>)>>),
     JList(<<JStr(<<"t">>), JInt(5)>>), JStr(<<"t">>), JNull}

\* "filename.md", a str in which both "name" and "file" occur
FileNameMd == <<"f", "i", "l", "e", "n", "a", "m", "e", ".", "m", "d">>

SubSkillsValues ==
    LET s1 == SubSkill(<<"s", "1">>, <<"s", "1", ".", "m", "d">>)
        s2 == SubSkill(<<"s", "2">>, <<"s", "2", ".", "m", "d">>)
    IN  {Absent, JList(<<>>), JList(<<s1>>), JList(<<s1, s2>>),
         JList(<<JDict([name |-> JStr(<<"s", "1">>)])>>),
         JList(<<s1, JDict([k \in {} |-> JNull])>>),
         JList(<<JStr(FileNameMd)>>), JList(<<JStr(<<"x">>)>>),
         JList(<<JInt(5)>>), JList(<<s1, JInt(5)>>),
         JList(<<JList(<<>>)>>), JNull, JDict([name |-> JInt(1)])}

\* the objects a _meta.json can hold, over the field values above
MetaObjects ==
    {Object(n, d, t, s) : n \in NameValues, d \in DescriptionValues,
                          t \in TagsValues, s \in SubSkillsValues}

\* the values a _meta.json can hold that are not objects
MetaOthers ==
    {JInt(5), JNull, JBool(TRUE), JList(<<>>), JList(<<JStr(Key("name"))>>),
     JList(<<JStr(Key("tags"))>>), JList(<<JStr(<<"x">>)>>),
     JStr(Key("name")), JStr(Key("description")), JStr(Key("tags")),
     JStr(<<"x">>), JStr(<<>>)}

MetaValues == MetaObjects \cup MetaOthers

\* one call validate_meta(meta, skill_name) is about to be made
MetaInit ==
    /\ ServerStart
    /\ NoCall
    /\ NoRecord
    /\ files = <<>>
    /\ meta \in [meta : MetaValues, skill_name : Domains]

\* the call returns or raises
validate_meta_call ==
    /\ results = None
    /\ results' = validate_meta(meta.meta, meta.skill_name)
    /\ UNCHANGED <<storeVars, sharedVars, locks, pc, op, arg, loadVars, ret,
                   watchVars, calls, index_skills, content, query, limit,
                   last_call, usageVars, docVars>>

MetaNext == validate_meta_call

MetaSpec == MetaInit /\ [][MetaNext]_vars

(* ------------------------------- paths --------------------------------- *)

\* A path is the str that str(path) gives.  The store holds no symbolic
\* links, so Path.resolve() only makes the path absolute and removes its
\* "." and ".." segments.

\* SKILLS_DIR = Path(__file__).parent / "skills", for a server.py in /srv
SKILLS_DIR == <<"/", "s", "r", "v", "/", "s", "k", "i", "l", "l", "s">>

\* the segments of a path: the maximal runs of characters other than "/"
Segments(p) ==
    LET positions == [j \in 1..Len(p) |-> j]
        IsStart(j) == p[j] # "/" /\ (j = 1 \/ p[j - 1] = "/")
        IsEnd(j) == p[j] # "/" /\ (j = Len(p) \/ p[j + 1] = "/")
        starts == SelectSeq(positions, IsStart)
        ends == SelectSeq(positions, IsEnd)
    IN  [k \in 1..Len(starts) |-> SubSeq(p, starts[k], ends[k])]

\* the segments left of the first n once "." and ".." have been followed
RECURSIVE Walk(_, _)
Walk(segs, n) ==
    IF n = 0 THEN <<>>
    ELSE LET before == Walk(segs, n - 1)
         IN  IF segs[n] = <<".">> THEN before
             ELSE IF segs[n] = <<".", ".">>
             THEN SubSeq(before, 1, Len(before) - 1)
             ELSE Append(before, segs[n])

\* "/" + "/".join(segs[:n])
RECURSIVE Joined(_, _)
Joined(segs, n) ==
    IF n = 0 THEN <<>> ELSE Joined(segs, n - 1) \o <<"/">> \o segs[n]

\* str(path.resolve()) of an absolute path
Resolve(p) ==
    LET stack == Walk(Segments(p), Len(Segments(p)))
    IN  IF stack = <<>> THEN <<"/">> ELSE Joined(stack, Len(stack))

\* base / rel: an absolute rel replaces base, an empty one leaves it
PathJoin(base, rel) ==
    IF rel = <<>> THEN base
    ELSE IF rel[1] = "/" THEN rel
    ELSE base \o <<"/">> \o rel

\* s.startswith(prefix)
StartsWith(s, prefix) ==
    Len(prefix) <= Len(s) /\ SubSeq(s, 1, Len(prefix)) = prefix

\* validate_skill_path(skill_path)
validate_skill_path(skill_path) ==
    StartsWith(Resolve(skill_path), Resolve(SKILLS_DIR))

(* ---------------------- the store by what it holds --------------------- *)

\* the names of the files the model knows, as the str each of them is
FileName(f) ==
    CASE f = "SKILL.md" -> <<"S", "K", "I", "L", "L", ".", "m", "d">>
      [] f = "_meta.json" -> <<"_", "m", "e", "t", "a", ".", "j", "s", "o", "n">>
      [] f = "s1.md" -> <<"s", "1", ".", "m", "d">>
      [] f = "gone.md" -> <<"g", "o", "n", "e", ".", "m", "d">>
      [] f = "sibling" -> <<".", ".", "/", "d", "2", "/", "S", "K", "I", "L", "L", ".", "m", "d">>
      [] f = "prefix" -> <<".", ".", "/", ".", ".", "/", "s", "k", "i", "l", "l", "s", "2", "/", "s", "e", "c", "r", "e", "t", ".", "m", "d">>
      [] f = "outside" -> <<".", ".", "/", ".", ".", "/", ".", ".", "/", "e", "t", "c", "/", "p", "a", "s", "s", "w", "d">>
      [] f = "absolute" -> <<"/", "e", "t", "c", "/", "p", "a", "s", "s", "w", "d">>

\* the directory of domain d
DomainDir(d) == PathJoin(SKILLS_DIR, Chars(d))

\* files that are not under SKILLS_DIR: one in a directory whose path has
\* that of SKILLS_DIR as a prefix, one elsewhere
OutsideFiles == {<<"/", "s", "r", "v", "/", "s", "k", "i", "l", "l", "s", "2", "/", "s", "e", "c", "r", "e", "t", ".", "m", "d">>, <<"/", "e", "t", "c", "/", "p", "a", "s", "s", "w", "d">>}

\* what a domain directory's _meta.json is: missing, not JSON
\* (json.JSONDecodeError), not readable (OSError or UnicodeDecodeError), or
\* a JSON text with its parsed value
MetaFile(state, value) == [state |-> state, value |-> value]

\* the sub_skills of a record whose descriptors name a file of the domain,
\* the SKILL.md of d2, a file in /srv/skills2, a file in /etc by a relative
\* and by an absolute path, and a file that does not exist
Descriptors ==
    <<SubSkill(<<"s", "1">>, FileName("s1.md")),
      SubSkill(<<"s", "2">>, FileName("sibling")),
      SubSkill(<<"s", "3">>, FileName("prefix")),
      SubSkill(<<"s", "4">>, FileName("outside")),
      SubSkill(<<"s", "5">>, FileName("absolute")),
      SubSkill(<<"s", "6">>, FileName("gone.md"))>>

OtherDomain(d) == IF d = DomainOrder[1] THEN DomainOrder[2] ELSE DomainOrder[1]

\* the values the _meta.json of directory d holds in the model: valid
\* records, records that fail validation and values that are not records
MetaValuesOf(d) ==
    LET name == JStr(Chars(d))
        x == JStr(<<"x">>)
    IN  {Object(name, x, Absent, Absent),
         Object(name, x, JList(<<JStr(<<"t">>)>>), JList(Descriptors)),
         Object(JStr(Chars(OtherDomain(d))), x, Absent, Absent),
         Object(Absent, x, Absent, Absent),
         Object(name, Absent, Absent, Absent),
         Object(name, x, JNull, Absent),
         Object(name, x, Absent, JNull),
         Object(name, x, Absent,
                JList(<<JDict([file |-> JStr(FileName("s1.md"))])>>)),
         Object(name, x, Absent, JList(<<JDict([name |-> JStr(<<"s", "1">>)])>>)),
         Object(name, x, Absent, JList(<<JInt(5)>>)),
         JInt(5),
         JList(<<>>)}

MetaFilesOf(d) ==
    {MetaFile("missing", JNull), MetaFile("invalid", JNull),
     MetaFile("unreadable", JNull)}
    \cup {MetaFile("parsed", v) : v \in MetaValuesOf(d)}

\* the states of the store: every domain directory exists and holds s1.md;
\* its _meta.json is one of the above and its SKILL.md exists or not
Stores ==
    {F \in [Domains -> [meta : UNION {MetaFilesOf(d) : d \in Domains},
                        skill_md : BOOLEAN]] :
        \A d \in Domains : F[d].meta \in MetaFilesOf(d)}

\* the regular files of store state F, by resolved path
RegularFiles(F) ==
    {PathJoin(DomainDir(d), FileName("s1.md")) : d \in Domains}
    \cup {PathJoin(DomainDir(d), FileName("SKILL.md")) :
            d \in {e \in Domains : F[e].skill_md}}
    \cup {PathJoin(DomainDir(d), FileName("_meta.json")) :
            d \in {e \in Domains : F[e].meta.state # "missing"}}
    \cup OutsideFiles

\* the directories, by resolved path
DirectoriesOf(F) ==
    {<<"/">>, <<"/", "s", "r", "v">>, SKILLS_DIR, <<"/", "e", "t", "c">>,
     <<"/", "s", "r", "v", "/", "s", "k", "i", "l", "l", "s", "2">>}
    \cup {DomainDir(d) : d \in Domains}

\* path.exists()
PathExists(F, p) == Resolve(p) \in RegularFiles(F) \cup DirectoriesOf(F)

\* what path.read_text() returns: the text of a file is told apart by the
\* file it is the text of
ReadText(p) == [text_of |-> Resolve(p)]

\* the text build_content_index stores for the SKILL.md of d
SkillText(d) == Lower(<<"A", " ">> \o Chars(d))

(* -------------------- load_index over what files hold ------------------- *)

\* one iteration of load_index's loop, on directory d whose _meta.json is
\* `file`: `before` is the exception that has left the loop, if any, and
\* index["skills"] and index["validation_errors"]
LoadDirectory(before, d, file, checked) ==
    IF before.raised # Nothing \/ file.state = "missing" THEN before
    ELSE IF file.state = "invalid"
    THEN [before EXCEPT !.validation_errors =
             Append(@, Error(d, "json", "_meta.json", -1))]
    ELSE IF file.state = "unreadable"
    THEN [before EXCEPT !.validation_errors =
             Append(@, Error(d, "read", "_meta.json", -1))]
    ELSE IF checked.raised # Nothing
    THEN [before EXCEPT !.raised = checked.raised]
    ELSE [raised |-> Nothing,
          skills |-> Append(before.skills, file.value),
          validation_errors |-> before.validation_errors \o checked.errors]

\* load_index's loop over the first n directories
RECURSIVE LoadLoop(_, _)
LoadLoop(F, n) ==
    IF n = 0
    THEN [raised |-> Nothing, skills |-> <<>>, validation_errors |-> <<>>]
    ELSE LoadDirectory(LoadLoop(F, n - 1), DomainOrder[n],
                  F[DomainOrder[n]].meta,
                  IF F[DomainOrder[n]].meta.state = "parsed"
                  THEN validate_meta(F[DomainOrder[n]].meta.value,
                                     DomainOrder[n])
                  ELSE [raised |-> Nothing, errors |-> <<>>])

\* build_content_index(): the entry of every SKILL.md, in directory order
\* (no directory of the model holds references or scripts)
build_content_index_files(F) ==
    LET present == SelectSeq(DomainOrder, LAMBDA d : F[d].skill_md)
    IN  [entries |->
           [k \in 1..Len(present) |->
              [domain |-> present[k], sub_skill |-> Nothing,
               file |-> FileName("SKILL.md"),
               content |-> SkillText(present[k])]]]

\* what load_index() gives once its loop is over: the exception it raises,
\* if any; otherwise the index it returns and the _CONTENT_INDEX it has set
LoadResult(loop, built) ==
    IF loop.raised # Nothing
    THEN [raised |-> loop.raised, index |-> None, content |-> None]
    ELSE [raised |-> Nothing,
          index |-> [skills |-> loop.skills,
                     validation_errors |-> loop.validation_errors],
          content |-> built]

\* load_index() on store state F
load_index_files(F) ==
    LoadResult(LoadLoop(F, Len(DomainOrder)), build_content_index_files(F))

(* -------------- the facade operations over what files hold -------------- *)

\* The operations below are those of the facade run one after another, on
\* index records that are the parsed values themselves.  An operation that
\* raises has the value [raised |-> the exception].

Value(S, value) == [state |-> S, value |-> value]

Raised(S, exception) == [state |-> S, value |-> [raised |-> exception[1]]]

\* the exception of v[k] for a str k, if any
SubscriptError(v, k) ==
    IF v.type # "dict" THEN Some("TypeError")
    ELSE IF k \notin DOMAIN v.val THEN Some("KeyError")
    ELSE Nothing

\* the exception of `for x in v`, if any
IterError(v) ==
    IF v.type \in Containers THEN Nothing ELSE Some("TypeError")

\* the exception of v.lower(), if any
LowerError(v) == IF v.type = "str" THEN Nothing ELSE Some("AttributeError")

\* the first exception of a sequence of steps that each raise or do not
FirstError(steps) ==
    LET failed == SelectSeq(steps, LAMBDA e : e # Nothing)
    IN  IF failed = <<>> THEN Nothing ELSE failed[1]

\* the items `for x in v` goes through: those of a list, the characters of
\* a str, the keys of a dict (those the code names, in one fixed order)
Items(v) ==
    CASE v.type = "list" -> v.val
      [] v.type = "str" -> [i \in 1..Len(v.val) |-> JStr(<<v.val[i]>>)]
      [] v.type = "dict" ->
           LET keys == SelectSeq(<<"name", "description", "tags",
                                   "sub_skills", "file", "triggers">>,
                                 LAMBDA k : k \in DOMAIN v.val)
           IN  [i \in 1..Len(keys) |-> JStr(Key(keys[i]))]

\* v.get(k, default) on a dict
GetOr(v, k, default) == IF k \in DOMAIN v.val THEN v.val[k] ELSE default

\* v == s for a str s
IsStr(v, s) == v.type = "str" /\ v.val = s

\* next((x for x in items if x["name"] == name), None): the exception of
\* x["name"] on an item reached before a match, or the first match, if any
FindByName(items, name) ==
    LET Stops(i) == \/ SubscriptError(items[i], "name") # Nothing
                    \/ IsStr(items[i].val["name"], name)
        stops == SelectSeq([i \in 1..Len(items) |-> i], Stops)
    IN  IF stops = <<>> THEN [raised |-> Nothing, found |-> Nothing]
        ELSE IF SubscriptError(items[stops[1]], "name") # Nothing
        THEN [raised |-> SubscriptError(items[stops[1]], "name"),
              found |-> Nothing]
        ELSE [raised |-> Nothing, found |-> Some(items[stops[1]])]

\* [sub["name"] for sub in meta.get("sub_skills", [])] on a dict meta
SubSkillNames(m) ==
    LET subs == GetOr(m, "sub_skills", JList(<<>>))
        items == Items(subs)
        failed == FirstError([i \in 1..Len(items) |->
                                SubscriptError(items[i], "name")])
    IN  IF IterError(subs) # Nothing
        THEN [raised |-> IterError(subs), names |-> <<>>]
        ELSE IF failed # Nothing THEN [raised |-> failed, names |-> <<>>]
        ELSE [raised |-> Nothing,
              names |-> [i \in 1..Len(items) |-> items[i].val["name"]]]

\* _INDEX = load_index(): an exception leaves the globals as they were
Installed(S, loaded) ==
    IF loaded.raised # Nothing THEN [raised |-> loaded.raised, state |-> S]
    ELSE [raised |-> Nothing,
          state |-> [S EXCEPT !.INDEX = loaded.index,
                              !.CONTENT_INDEX = loaded.content]]

\* get_index() on store state F: a load when _INDEX is None
get_index_files(S, F) ==
    IF S.INDEX # None THEN [raised |-> Nothing, state |-> S]
    ELSE Installed(S, load_index_files(F))

\* what _list_skills builds for one index record
ListedSkill(s) ==
    LET failed == FirstError(<<SubscriptError(s, "name"),
                               SubscriptError(s, "description")>>)
    IN  IF failed # Nothing THEN [raised |-> failed, entry |-> None]
        ELSE IF SubSkillNames(s).raised # Nothing
        THEN [raised |-> SubSkillNames(s).raised, entry |-> None]
        ELSE [raised |-> Nothing,
              entry |-> [name |-> s.val["name"],
                         description |-> s.val["description"],
                         sub_skills |-> SubSkillNames(s).names]]

\* _list_skills once get_index() has returned or raised
ListSkillsOn(G) ==
    LET skills == G.state.INDEX.skills
        failed == FirstError([i \in 1..Len(skills) |->
                                ListedSkill(skills[i]).raised])
    IN  IF G.raised # Nothing THEN Raised(G.state, G.raised)
        ELSE IF failed # Nothing THEN Raised(G.state, failed)
        ELSE Value(G.state,
                   [skills |-> [i \in 1..Len(skills) |->
                                  ListedSkill(skills[i]).entry]])

list_skills_files(S, F) ==
    ListSkillsOn(get_index_files(
                     TrackUsage(S, "list_skills", Nothing, Nothing), F))

\* _get_skill once track_usage has run: T is the globals it leaves and G
\* what get_index() gives on them
GetSkillOn(T, G, F, name) ==
    LET skill_dir == PathJoin(SKILLS_DIR, Chars(name))
        skill_file == PathJoin(skill_dir, FileName("SKILL.md"))
        hit == FindByName(G.state.INDEX.skills, Chars(name))
        m == IF hit.found = Nothing THEN JDict([k \in {} |-> JNull])
             ELSE hit.found[1]
    IN  IF ~validate_skill_path(skill_dir)
        THEN Value(T, [error |-> "Invalid skill path"])
        ELSE IF ~PathExists(F, skill_file)
        THEN Value(T, [error |-> "Skill not found"])
        ELSE IF G.raised # Nothing THEN Raised(T, G.raised)
        ELSE IF hit.raised # Nothing THEN Raised(G.state, hit.raised)
        ELSE IF SubSkillNames(m).raised # Nothing
        THEN Raised(G.state, SubSkillNames(m).raised)
        ELSE Value(G.state, [name |-> name, content |-> ReadText(skill_file),
                             sub_skills |-> SubSkillNames(m).names,
                             has_references |-> FALSE])

get_skill_files(S, F, name) ==
    IF ~is_safe_skill_name(name)
    THEN Value(S, [error |-> "Invalid skill name"])
    ELSE GetSkillOn(TrackUsage(S, "get_skill", Some(name), Nothing),
                    get_index_files(
                        TrackUsage(S, "get_skill", Some(name), Nothing), F),
                    F, name)

\* _get_sub_skill once get_index() has returned or raised
GetSubSkillOn(G, F, domain, sub_skill) ==
    LET hit == FindByName(G.state.INDEX.skills, Chars(domain))
        subs == GetOr(hit.found[1], "sub_skills", JList(<<>>))
        sub == FindByName(Items(subs), sub_skill)
        file == sub.found[1].val["file"]
        file_path == PathJoin(PathJoin(SKILLS_DIR, Chars(domain)), file.val)
    IN  IF G.raised # Nothing THEN Raised(G.state, G.raised)
        ELSE IF hit.raised # Nothing THEN Raised(G.state, hit.raised)
        ELSE IF hit.found = Nothing
        THEN Value(G.state, [error |-> "Domain not found"])
        ELSE IF IterError(subs) # Nothing
        THEN Raised(G.state, IterError(subs))
        ELSE IF sub.raised # Nothing THEN Raised(G.state, sub.raised)
        ELSE IF sub.found = Nothing
        THEN Value(G.state, [error |-> "Sub-skill not found"])
        ELSE IF SubscriptError(sub.found[1], "file") # Nothing
        THEN Raised(G.state, SubscriptError(sub.found[1], "file"))
        ELSE IF file.type # "str" THEN Raised(G.state, Some("TypeError"))
        ELSE IF ~validate_skill_path(file_path)
        THEN Value(G.state, [error |-> "Invalid file path"])
        ELSE IF ~PathExists(F, file_path)
        THEN Value(G.state, [error |-> "File not found"])
        ELSE IF Resolve(file_path) \notin RegularFiles(F)
        THEN Value(G.state, [error |-> "Failed to read sub-skill"])
        ELSE Value(G.state, [domain |-> domain, sub_skill |-> sub_skill,
                             content |-> ReadText(file_path)])

get_sub_skill_files(S, F, domain, sub_skill) ==
    IF ~is_safe_skill_name(domain)
    THEN Value(S, [error |-> "Invalid domain name"])
    ELSE GetSubSkillOn(get_index_files(
                           TrackUsage(S, "get_sub_skill", Some(domain),
                                      Nothing), F),
                       F, domain, sub_skill)

\* an operation has raised
HasRaised(out) == "raised" \in DOMAIN out.value

\* what the loop of _get_skills_batch has appended once the outcome `one`
\* of a request is known: the exception of a request leaves the loop
BatchAppend(before, one) ==
    IF before.raised # Nothing THEN before
    ELSE IF HasRaised(one)
    THEN [state |-> one.state, raised |-> Some(one.value.raised),
          results |-> before.results]
    ELSE [state |-> one.state, raised |-> Nothing,
          results |-> Append(before.results, one.value)]

\* one iteration of the loop, on request req
BatchStep(before, F, req) ==
    BatchAppend(before,
                IF req.sub_skill # Nothing /\ req.sub_skill[1] # <<>>
                THEN get_sub_skill_files(before.state, F, req.domain,
                                         req.sub_skill[1])
                ELSE get_skill_files(before.state, F, req.domain))

\* the loop of _get_skills_batch over the first n requests
RECURSIVE BatchLoopFiles(_, _, _, _)
BatchLoopFiles(S, F, requests, n) ==
    IF n = 0 THEN [state |-> S, raised |-> Nothing, results |-> <<>>]
    ELSE BatchStep(BatchLoopFiles(S, F, requests, n - 1), F, requests[n])

\* the value of _get_skills_batch once its loop is over
BatchResult(loop) ==
    IF loop.raised # Nothing THEN Raised(loop.state, loop.raised)
    ELSE Value(loop.state, [results |-> loop.results])

get_skills_batch_files(S, F, requests) ==
    BatchResult(BatchLoopFiles(
                    TrackUsage(S, "get_skills_batch", Nothing, Nothing),
                    F, requests, Len(requests)))

\* any(q in t.lower() for t in items): the exception of t.lower() on an
\* item reached before a match, or whether there is a match
AnyContains(items, q) ==
    LET Stops(i) == \/ LowerError(items[i]) # Nothing
                    \/ Contains(Lower(items[i].val), q)
        stops == SelectSeq([i \in 1..Len(items) |-> i], Stops)
    IN  IF stops = <<>> THEN [raised |-> Nothing, any |-> FALSE]
        ELSE IF LowerError(items[stops[1]]) # Nothing
        THEN [raised |-> LowerError(items[stops[1]]), any |-> FALSE]
        ELSE [raised |-> Nothing, any |-> TRUE]

\* the if / elif / elif of _search_skills over name, description and tags
\* of an index record and what it appends
DomainEntriesOf(skill, q) ==
    LET name == skill.val["name"]
        description == skill.val["description"]
        tags == GetOr(skill, "tags", JList(<<>>))
        Entry(score, match) ==
            [raised |-> Nothing,
             entries |-> <<[domain |-> name, sub_skill |-> Nothing,
                            score |-> score, match |-> match]>>]
        Fails(exception) == [raised |-> exception, entries |-> <<>>]
    IN  IF SubscriptError(skill, "name") # Nothing
        THEN Fails(SubscriptError(skill, "name"))
        ELSE IF LowerError(name) # Nothing THEN Fails(LowerError(name))
        ELSE IF Contains(Lower(name.val), q) THEN Entry(900, "name")
        ELSE IF SubscriptError(skill, "description") # Nothing
        THEN Fails(SubscriptError(skill, "description"))
        ELSE IF LowerError(description) # Nothing
        THEN Fails(LowerError(description))
        ELSE IF Contains(Lower(description.val), q)
        THEN Entry(700, "description")
        ELSE IF IterError(tags) # Nothing THEN Fails(IterError(tags))
        ELSE IF AnyContains(Items(tags), q).raised # Nothing
        THEN Fails(AnyContains(Items(tags), q).raised)
        ELSE IF AnyContains(Items(tags), q).any THEN Entry(800, "tags")
        ELSE [raised |-> Nothing, entries |-> <<>>]

\* the if / elif of _search_skills over one element of sub_skills
SubEntriesOf(skill, sub, q) ==
    LET name == sub.val["name"]
        triggers == GetOr(sub, "triggers", JList(<<>>))
        Entry(score, match) ==
            [raised |-> Nothing,
             entries |-> <<[domain |-> skill.val["name"],
                            sub_skill |-> Some(name),
                            score |-> score, match |-> match]>>]
        Fails(exception) == [raised |-> exception, entries |-> <<>>]
    IN  IF SubscriptError(sub, "name") # Nothing
        THEN Fails(SubscriptError(sub, "name"))
        ELSE IF LowerError(name) # Nothing THEN Fails(LowerError(name))
        ELSE IF Contains(Lower(name.val), q) THEN Entry(850, "name")
        ELSE IF IterError(triggers) # Nothing
        THEN Fails(IterError(triggers))
        ELSE IF AnyContains(Items(triggers), q).raised # Nothing
        THEN Fails(AnyContains(Items(triggers), q).raised)
        ELSE IF AnyContains(Items(triggers), q).any
        THEN Entry(900, "triggers")
        ELSE [raised |-> Nothing, entries |-> <<>>]

\* one step of a loop that raises or appends entries
Then(before, one) ==
    IF before.raised # Nothing THEN before
    ELSE IF one.raised # Nothing
    THEN [raised |-> one.raised, entries |-> before.entries]
    ELSE [raised |-> Nothing, entries |-> before.entries \o one.entries]

\* a loop whose n steps each raise or append entries: the first exception,
\* or the entries of all the steps in order
RECURSIVE Appended(_, _)
Appended(step, n) ==
    IF n = 0 THEN [raised |-> Nothing, entries |-> <<>>]
    ELSE Then(Appended(step, n - 1), step[n])

\* one iteration of `for skill in index["skills"]`
SkillEntries(skill, q) ==
    LET domain == DomainEntriesOf(skill, q)
        subs == GetOr(skill, "sub_skills", JList(<<>>))
        items == Items(subs)
    IN  IF domain.raised # Nothing THEN domain
        ELSE IF IterError(subs) # Nothing
        THEN [raised |-> IterError(subs), entries |-> <<>>]
        ELSE Appended(<<domain>> \o [i \in 1..Len(items) |->
                                       SubEntriesOf(skill, items[i], q)],
                      Len(items) + 1)

\* the value of _search_skills once its loop is over
SearchSkillsResult(S, found, q, l) ==
    IF found.raised # Nothing THEN Raised(S, found.raised)
    ELSE Value(S, [query |-> q,
                   results |-> Take(SortByScore(found.entries),
                                    ClampLimit(l))])

\* _search_skills once get_index() has returned or raised
SearchSkillsOn(G, q, l) ==
    IF G.raised # Nothing THEN Raised(G.state, G.raised)
    ELSE SearchSkillsResult(
             G.state,
             Appended([i \in 1..Len(G.state.INDEX.skills) |->
                         SkillEntries(G.state.INDEX.skills[i], Lower(q))],
                      Len(G.state.INDEX.skills)),
             q, l)

search_skills_files(S, F, q, l) ==
    IF IsBlank(q)
    THEN Value(S, [error |-> "Query cannot be empty", results |-> <<>>])
    ELSE IF Len(q) > QueryMaxLen
    THEN Value(S, [error |-> "Query too long", results |-> <<>>])
    ELSE SearchSkillsOn(get_index_files(
                            TrackUsage(S, "search_skills", Nothing, Some(q)),
                            F),
                        q, l)

\* _search_content once _CONTENT_INDEX has been looked at
SearchContentOn(G, q, l) ==
    IF G.raised # Nothing THEN Raised(G.state, G.raised)
    ELSE IF G.state.CONTENT_INDEX = None
    THEN Raised(G.state, Some("AttributeError"))
    ELSE Value(G.state,
               [query |-> q,
                results |-> search_content_result(
                                q, l, G.state.CONTENT_INDEX.entries).results])

\* the content index _search_content iterates: the locks are left out, so a
\* _CONTENT_INDEX that is None is loaded by get_index(), and iterated as it
\* is when the load left it None
ContentIndexOn(T, F) ==
    IF T.CONTENT_INDEX = None THEN get_index_files(T, F)
    ELSE [raised |-> Nothing, state |-> T]

search_content_files(S, F, q, l) ==
    IF IsBlank(q)
    THEN Value(S, [error |-> "Query cannot be empty", results |-> <<>>])
    ELSE IF Len(q) > QueryMaxLen
    THEN Value(S, [error |-> "Query too long", results |-> <<>>])
    ELSE IF Len(Split(Lower(q))) > QueryMaxWords
    THEN Value(S, [error |-> "Too many search terms", results |-> <<>>])
    ELSE SearchContentOn(
             ContentIndexOn(
                 TrackUsage(S, "search_content", Nothing, Some(q)), F),
             q, l)

\* len(_CONTENT_INDEX) if _CONTENT_INDEX else 0
ContentCount(S) ==
    IF S.CONTENT_INDEX = None THEN 0 ELSE Len(S.CONTENT_INDEX.entries)

\* _reload_index once load_index() has returned or raised; T is the globals
\* after the swap and track_usage
Reloaded(S, loaded, T) ==
    IF loaded.raised # Nothing THEN Raised(S, loaded.raised)
    ELSE Value(T, [status |-> "reloaded",
                   skill_count |-> Len(T.INDEX.skills),
                   content_files_indexed |-> ContentCount(T),
                   validation_errors |-> T.INDEX.validation_errors])

reload_index_files(S, F) ==
    Reloaded(S, load_index_files(F),
             TrackUsage(Installed(S, load_index_files(F)).state,
                        "reload_index", Nothing, Nothing))

\* _get_stats once the copy has been taken and get_index() has returned or
\* raised
StatsOn(S, G) ==
    IF G.raised # Nothing THEN Raised(S, G.raised)
    ELSE Value(G.state,
               [tool_calls |-> S.USAGE_STATS.tool_calls,
                skill_loads |-> S.USAGE_STATS.skill_loads,
                recent_searches |-> RecentSearches(S.USAGE_STATS.searches),
                total_skills |-> Len(G.state.INDEX.skills),
                content_files_indexed |-> ContentCount(G.state)])

get_stats_files(S, F) == StatsOn(S, get_index_files(S, F))

\* `not v`
Falsy(v) ==
    CASE v.type = "NoneType" -> TRUE
      [] v.type \in Containers -> Len(Items(v)) = 0
      [] v.type = "int" -> v.val = 0
      [] v.type = "bool" -> ~v.val

\* the loop of _validate_skills over sub_skills: the exception of
\* sub["file"] or of skill_dir / sub["file"], or one error per file that
\* does not exist
SubFileErrors(F, d, items) ==
    LET Step(sub) ==
            IF SubscriptError(sub, "file") # Nothing
            THEN [raised |-> SubscriptError(sub, "file"), entries |-> <<>>]
            ELSE IF sub.val["file"].type # "str"
            THEN [raised |-> Some("TypeError"), entries |-> <<>>]
            ELSE IF PathExists(F, PathJoin(DomainDir(d), sub.val["file"].val))
            THEN [raised |-> Nothing, entries |-> <<>>]
            ELSE [raised |-> Nothing,
                  entries |-> <<Error(d, "sub_file", "file", -1)>>]
    IN  Appended([i \in 1..Len(items) |-> Step(items[i])], Len(items))

\* one iteration of the loop of _validate_skills: the exception that leaves
\* it, if any, and the errors and warnings it appends
ValidatedDirectory(F, d) ==
    LET file == F[d].meta
        m == file.value
        md == IF F[d].skill_md THEN <<>>
              ELSE <<Error(d, "file", "SKILL.md", -1)>>
        checked == validate_meta(m, d)
        subs == GetOr(m, "sub_skills", JList(<<>>))
        sub_files == SubFileErrors(F, d, Items(subs))
        Fails(exception) ==
            [raised |-> exception, errors |-> <<>>, warnings |-> <<>>]
        Done(errors, warnings) ==
            [raised |-> Nothing, errors |-> errors, warnings |-> warnings]
    IN  IF file.state = "missing"
        THEN Done(<<Error(d, "file", "_meta.json", -1)>>, <<>>)
        ELSE IF file.state = "unreadable" THEN Fails(Some("OSError"))
        ELSE IF file.state = "invalid"
        THEN Done(md \o <<Error(d, "json", "_meta.json", -1)>>, <<>>)
        ELSE IF checked.raised # Nothing THEN Fails(checked.raised)
        ELSE IF m.type # "dict" THEN Fails(Some("AttributeError"))
        ELSE IF IterError(subs) # Nothing THEN Fails(IterError(subs))
        ELSE IF sub_files.raised # Nothing THEN Fails(sub_files.raised)
        ELSE Done(md \o checked.errors \o sub_files.entries,
                  (IF Falsy(GetOr(m, "tags", JNull))
                   THEN <<Error(d, "warning", "tags", -1)>> ELSE <<>>)
                  \o (IF Falsy(subs)
                      THEN <<Error(d, "warning", "sub_skills", -1)>>
                      ELSE <<>>))

\* the errors and warnings once one more directory has been looked at
ValidateStep(before, one) ==
    IF before.raised # Nothing THEN before
    ELSE IF one.raised # Nothing THEN [before EXCEPT !.raised = one.raised]
    ELSE [raised |-> Nothing,
          errors |-> before.errors \o one.errors,
          warnings |-> before.warnings \o one.warnings]

\* the loop of _validate_skills over the first n directories
RECURSIVE ValidateLoop(_, _)
ValidateLoop(F, n) ==
    IF n = 0 THEN [raised |-> Nothing, errors |-> <<>>, warnings |-> <<>>]
    ELSE ValidateStep(ValidateLoop(F, n - 1),
                      ValidatedDirectory(F, DomainOrder[n]))

\* the value of _validate_skills once its loop is over
ValidateResult(S, loop) ==
    IF loop.raised # Nothing THEN Raised(S, loop.raised)
    ELSE Value(S, [valid |-> loop.errors = <<>>,
                   errors |-> loop.errors,
                   warnings |-> loop.warnings,
                   skills_checked |-> Len(DomainOrder)])

validate_skills_files(S, F) ==
    ValidateResult(S, ValidateLoop(F, Len(DomainOrder)))

(* ------------------ calls on a store of files that hold ----------------- *)

\* the domain names, sub-skill names, queries and batches callers pass
DomainArgs == {"d1", "d2", "../x"}

SubSkillArgs ==
    {<<"s", "1">>, <<"s", "2">>, <<"s", "3">>, <<"s", "4">>, <<"s", "5">>,
     <<"s", "6">>, <<"z">>}

QueryArgs == {<<"d">>, <<"x">>, <<"t">>, <<"S">>, <<" ">>}

BatchArgs ==
    {<<[domain |-> "d1", sub_skill |-> Nothing],
       [domain |-> "d2", sub_skill |-> Nothing]>>,
     <<[domain |-> "d2", sub_skill |-> Nothing],
       [domain |-> "../x", sub_skill |-> Nothing],
       [domain |-> "d1", sub_skill |-> Some(<<"s", "1">>)]>>,
     <<[domain |-> "d2", sub_skill |-> Some(<<"z">>)],
       [domain |-> "d1", sub_skill |-> Some(<<>>)]>>,
     <<>>}

\* a process on a store of Stores: one that has just been started, or one
\* in which the store has been loaded
FilesInit ==
    /\ Idle
    /\ USAGE_STATS = UsageAfter(0)
    /\ NoCall
    /\ NoRecord
    /\ meta = None
    /\ files \in Stores
    /\ \/ INDEX = None /\ CONTENT_INDEX = None
       \/ /\ load_index_files(files).raised = Nothing
          /\ INDEX = load_index_files(files).index
          /\ CONTENT_INDEX = load_index_files(files).content

\* the tool is called with args and runs to its end with outcome out, as
\* the one call looked at
CalledOnFiles(tool, args, out) ==
    /\ last_call = None
    /\ INDEX' = out.state.INDEX
    /\ CONTENT_INDEX' = out.state.CONTENT_INDEX
    /\ USAGE_STATS' = out.state.USAGE_STATS
    /\ last_call' = [tool |-> tool, args |-> args, value |-> out.value,
                     before |-> INDEX]
    /\ UNCHANGED <<storeVars, FILE_MTIMES, locks, pc, op, arg, loadVars, ret,
                   watchVars, calls, index_skills, content, query, limit,
                   results, usageVars, docVars>>

files_list_skills ==
    CalledOnFiles("list_skills", <<>>, list_skills_files(Globals, files))

files_get_skill ==
    \E name \in DomainArgs :
        CalledOnFiles("get_skill", <<name>>,
                      get_skill_files(Globals, files, name))

files_get_sub_skill ==
    \E domain \in DomainArgs, sub_skill \in SubSkillArgs :
        CalledOnFiles("get_sub_skill", <<domain, sub_skill>>,
                      get_sub_skill_files(Globals, files, domain, sub_skill))

files_get_skills_batch ==
    \E requests \in BatchArgs :
        CalledOnFiles("get_skills_batch", <<requests>>,
                      get_skills_batch_files(Globals, files, requests))

files_search_skills ==
    \E q \in QueryArgs :
        CalledOnFiles("search_skills", <<q>>,
                      search_skills_files(Globals, files, q, 5))

files_search_content ==
    \E q \in QueryArgs :
        CalledOnFiles("search_content", <<q>>,
                      search_content_files(Globals, files, q, 10))

files_reload_index ==
    CalledOnFiles("reload_index", <<>>, reload_index_files(Globals, files))

files_get_stats ==
    CalledOnFiles("get_stats", <<>>, get_stats_files(Globals, files))

files_validate_skills ==
    CalledOnFiles("validate_skills", <<>>,
                  validate_skills_files(Globals, files))

FilesNext ==
    \/ files_list_skills
    \/ files_get_skill
    \/ files_get_sub_skill
    \/ files_get_skills_batch
    \/ files_search_skills
    \/ files_search_content
    \/ files_reload_index
    \/ files_get_stats
    \/ files_validate_skills

FilesSpec == FilesInit /\ [][FilesNext]_vars

(* ------------------------------ waiting -------------------------------- *)

\* the lock thread p is about to acquire at its position, "none" if none
WaitsFor(p) ==
    CASE pc[p] \in {"tu", "st_copy"} -> "_STATS_LOCK"
      [] pc[p] \in {"gi", "rl_swap", "w_swap"} -> "_INDEX_LOCK"
      [] pc[p] \in {"li_build", "sc_acq", "rl_count", "st_count"} ->
             "_CONTENT_INDEX_LOCK"
      [] OTHER -> "none"

\* p cannot take its next step: the lock it needs is held
Blocked(p) == WaitsFor(p) # "none" /\ locks[WaitsFor(p)] # Free

\* every thread of S waits for a lock held by a thread of S: none of them
\* ever runs again
Deadlock(S) ==
    /\ S # {}
    /\ \A p \in S : Blocked(p) /\ locks[WaitsFor(p)] \in S

\* the threads that are blocked forever
Stuck == UNION {S \in SUBSET Procs : Deadlock(S)}

\* positions whose next step reads the filesystem (exists, iterdir, stat,
\* read_text)
ScanPositions == {"li_start", "li_scan", "bc_scan", "cf_scan", "gs_read"}

(* ------------------------------- claims -------------------------------- *)

\* C1: in every interleaving of the facade operations of the request threads
\* with the refresher, no request thread is ever blocked forever on one of
\* the four locks, so every operation that starts can still return.
C1_NoRequestBlockedForever == Stuck \cap Threads = {}

\* C2: no thread requests or holds one of the four locks while it already
\* holds another one: acquisitions are sequential, never nested.
C2_LocksNeverNested ==
    \A p \in Procs :
        /\ Cardinality(Held(p)) <= 1
        /\ WaitsFor(p) # "none" => Held(p) = {}

\* C3: a search_content call that found the content index unset and went on
\* to the lazy load is never left waiting for a lock it holds itself, a
\* state from which the call cannot return.
C3_SearchContentLazyLoadReturns ==
    \A t \in Threads :
        locks["_CONTENT_INDEX_LOCK"] = t =>
            ~(Blocked(t) /\ locks[WaitsFor(t)] = t)

\* C4: every value of the metadata index and of the content index that is
\* installed, and every value a reader has obtained, is the complete result
\* of one finished load pass, never a snapshot still under construction.
C4_SnapshotsComplete ==
    /\ INDEX # None => INDEX.done
    /\ CONTENT_INDEX # None => CONTENT_INDEX.done
    /\ \A t \in Threads : ret[t] # None => ret[t].done

\* C4 witness: a reader holds a snapshot it obtained while the installed
\* indexes are set and another thread is half-way through a load pass.
C4_Witness ==
    /\ INDEX # None
    /\ CONTENT_INDEX # None
    /\ \E t \in Threads : ret[t] # None
    /\ \E p \in Procs : pc[p] \in {"li_scan", "bc_scan"} /\ pos[p] = N

\* C5: no filesystem scan or file read is performed by a thread that holds
\* one of the four locks.
C5_NoScanUnderLock ==
    \A p \in Procs : pc[p] \in ScanPositions => Held(p) = {}

\* the request threads are idle and the refresher's last completed check
\* sampled the store as it is now and reported no change: from here on
\* nothing reloads the indexes unless the store changes or a call arrives
Settled ==
    /\ \A t \in Threads : pc[t] = "idle"
    /\ pc[Watcher] = "w_check"
    /\ ~returned
    /\ sample = store

\* C6: once the document store has been changed and stays as it is, the
\* metadata index and the content index end up equal to what a load of that
\* store produces: when the system has settled on a store that was changed
\* (and still exists) the installed indexes are those of that store.
C6_SettledIndexesAreCurrent ==
    (Settled /\ clock > 1 /\ rootExists /\ INDEX # None) =>
        /\ INDEX = LoadOf(store)
        /\ CONTENT_INDEX = BuildOf(store)

\* C7: the refresher never stops checking: it is never among the threads
\* that are blocked forever.
C7_RefresherNeverBlockedForever == Watcher \notin Stuck

\* C8: the last change check returned true exactly when what it sampled (the
\* set of paths and their mtimes) differs from what the check before it
\* sampled.
C8_CheckReportsExactlyTheChanges == returned <=> (sample # prevSample)

\* C9: after every change check the stored file-timestamp snapshot is the
\* mapping that check sampled.
C9_StoredSnapshotIsTheSample == FILE_MTIMES = sample

\* get_index returns to thread t in this step
GetIndexReturns(t) ==
    /\ pc[t] \in {"gi", "gi_set"}
    /\ pc'[t] \in {"op_ret", "sc_iter", "st_count"}

SkillsReturned ==
    /\ results # None
    /\ results.tool = "search_skills"
    /\ results.value.error = "None"

\* _search_content has returned a result list
ContentReturned ==
    /\ results # None
    /\ results.tool = "search_content"
    /\ results.value.error = "None"

\* the places in the returned list of the domain-level entry of a record
DomainEntries(skill) ==
    {i \in 1..Len(results.value.results) :
        /\ results.value.results[i].domain = skill.name
        /\ results.value.results[i].sub_skill = Nothing}

\* the places in the returned list of the entries of a sub-skill of a record
SubEntries(skill, sub) ==
    {i \in 1..Len(results.value.results) :
        /\ results.value.results[i].domain = skill.name
        /\ results.value.results[i].sub_skill = Some(sub.name)}

\* an entry of score s is in the list at one of the places own, unless the
\* list was cut at the limit with entries that all score at least s
PresentUnlessCut(own, s) ==
    \/ own # {}
    \/ /\ Len(results.value.results) = ClampLimit(limit)
       /\ \A i \in 1..Len(results.value.results) :
            results.value.results[i].score >= s

TagMatches(skill) ==
    \E i \in 1..Len(skill.tags) : Contains(Lower(skill.tags[i]), Lower(query))

TriggerMatches(sub) ==
    \E i \in 1..Len(sub.triggers) :
        Contains(Lower(sub.triggers[i]), Lower(query))

\* C15: in the list _search_skills returns every index record has at most one
\* domain-level entry (sub_skill None), and for a record whose name contains
\* the query that entry has match "name" and score 0.9, whether or not its
\* description or a tag match too.
C15_OneDomainEntryNameWins ==
    SkillsReturned =>
        \A k \in 1..Len(index_skills) :
            LET skill == index_skills[k]
                own == DomainEntries(skill)
            IN  /\ Cardinality(own) <= 1
                /\ Contains(Lower(skill.name), Lower(query)) =>
                      /\ \A i \in own :
                           /\ results.value.results[i].match = "name"
                           /\ results.value.results[i].score = 900
                      /\ PresentUnlessCut(own, 900)

\* C15 witness: a record whose name, description-or-tag both contain the
\* query is in the returned list with match "name".
C15_Witness ==
    /\ SkillsReturned
    /\ \E k \in 1..Len(index_skills) :
         /\ Contains(Lower(index_skills[k].name), Lower(query))
         /\ TagMatches(index_skills[k])
         /\ \E i \in DomainEntries(index_skills[k]) :
              results.value.results[i].match = "name"

\* C16: a record whose name does not contain the query, but whose description
\* and some tag both contain it, has its domain-level entry with match "tags"
\* and score 0.8 (tags before description).
C16_TagsBeforeDescription ==
    SkillsReturned =>
        \A k \in 1..Len(index_skills) :
            LET skill == index_skills[k]
            IN  (/\ ~Contains(Lower(skill.name), Lower(query))
                 /\ Contains(Lower(skill.description), Lower(query))
                 /\ TagMatches(skill)) =>
                    \A i \in DomainEntries(skill) :
                        /\ results.value.results[i].match = "tags"
                        /\ results.value.results[i].score = 800

Qualifying ==
    IF results.tool = "search_skills"
    THEN Collected(index_skills, Lower(query), 1, Len(index_skills))
    ELSE ContentCollected(content, Lower(query), Split(Lower(query)),
                          1, Len(content))

\* entry a goes before entry b: higher score, or equal score and collected
\* earlier (ia and ib are their places in collection order)
GoesBefore(a, ia, b, ib) ==
    \/ a.score > b.score
    \/ a.score = b.score /\ ia < ib

\* C18: the list a search returns has min(max(limit, 1), 100) entries, or all
\* the qualifying entries if they are fewer; its entries are qualifying
\* entries in order of non-increasing score, entries of equal score in
\* collection order; and every qualifying entry left out would go after
\* every entry of the list.
C18_SortedStableAndCut ==
    (SkillsReturned \/ ContentReturned) =>
        LET R == results.value.results
            Q == Qualifying
            cap == IF limit < 1 THEN 1 ELSE IF limit > 100 THEN 100 ELSE limit
            at == [i \in 1..Len(R) |->
                     IF \E j \in 1..Len(Q) : Q[j] = R[i]
                     THEN CHOOSE j \in 1..Len(Q) : Q[j] = R[i]
                     ELSE 0]
        IN  /\ Len(R) = (IF Len(Q) < cap THEN Len(Q) ELSE cap)
            /\ \A i \in 1..Len(R) : at[i] # 0
            /\ \A i \in 1..Len(R) : \A j \in (i + 1)..Len(R) :
                 GoesBefore(R[i], at[i], R[j], at[j])
            /\ \A j \in 1..Len(Q) :
                 (\A i \in 1..Len(R) : at[i] # j) =>
                     \A i \in 1..Len(R) : GoesBefore(R[i], at[i], Q[j], j)

\* C18 witness: more than 100 entries qualify, the limit is above 100, and
\* the list is cut between two entries of equal score.
C18_Witness ==
    /\ SkillsReturned \/ ContentReturned
    /\ limit > LimitMax
    /\ Len(results.value.results) = LimitMax
    /\ Len(Qualifying) > LimitMax
    /\ \E j \in 1..Len(Qualifying) :
         /\ Qualifying[j].score = results.value.results[LimitMax].score
         /\ \A i \in 1..LimitMax : results.value.results[i] # Qualifying[j]

\* the tier of content c for the query: 3 when it contains the whole query,
\* 2 when it contains every word, 1 when it contains some word, else 0
Tier(c) ==
    LET q == Lower(query)
        words == Split(q)
    IN  IF Contains(c, q) THEN 3
        ELSE IF \A i \in 1..Len(words) : Contains(c, words[i]) THEN 2
        ELSE IF \E i \in 1..Len(words) : Contains(c, words[i]) THEN 1
        ELSE 0

\* the places in the returned list of the entries of content entry e
ContentEntries(e) ==
    {i \in 1..Len(results.value.results) :
        results.value.results[i].domain = e.domain}

\* C20: in the list _search_content returns, the score of an entry is that of
\* the one tier of its content: 1.0 or 1.2 when it contains the whole query;
\* 0.7 + min(0.05 * occurrences of the words, 0.2) when it contains every
\* word but not the query; 0.3 * matched / total words (to the thousandth
\* the returned scores are rounded to), above 0 and below 0.7, when it
\* contains some word; a content that contains no word has no
\* entry; and an entry of a higher tier has a higher score than an entry of a
\* lower one.
C20_ContentScoreTiers ==
    ContentReturned =>
        LET R == results.value.results
            words == Split(Lower(query))
        IN  /\ \A k \in 1..Len(content) :
                 LET c == content[k].content
                     own == ContentEntries(content[k])
                     occ == Occurrences(c, words, Len(words))
                     found == Cardinality({i \in 1..Len(words) :
                                             Contains(c, words[i])})
                 IN  /\ Tier(c) = 0 => own = {}
                     /\ \A i \in own :
                          /\ Tier(c) = 3 => R[i].score \in {1000, 1200}
                          /\ Tier(c) = 2 =>
                               R[i].score =
                                 700 + (IF 50 * occ < 200 THEN 50 * occ ELSE 200)
                          /\ Tier(c) = 1 =>
                               /\ 2 * (R[i].score * Len(words) - 300 * found)
                                    <= Len(words)
                               /\ 2 * (300 * found - R[i].score * Len(words))
                                    <= Len(words)
                               /\ R[i].score > 0
                               /\ R[i].score < 700
            /\ \A k1, k2 \in 1..Len(content) :
                 Tier(content[k1].content) > Tier(content[k2].content) =>
                     \A i \in ContentEntries(content[k1]) :
                         \A j \in ContentEntries(content[k2]) :
                             R[i].score > R[j].score

\* C20 witness: the list holds an entry of the all-words tier whose bonus is
\* capped and an entry of the some-words tier; or an entry that contains the
\* query after the first 500 characters (score 1.0) above a some-words one.
C20_Witness ==
    /\ ContentReturned
    /\ \E k1, k2 \in 1..Len(content) :
         /\ Tier(content[k1].content) \in {2, 3}
         /\ Tier(content[k2].content) = 1
         /\ \E i \in ContentEntries(content[k1]) :
              results.value.results[i].score \in {900, 1000}
         /\ ContentEntries(content[k2]) # {}

(* ------------------------ claims: facade calls ------------------------- *)

\* this step is a facade call, run from its entry to its return
CallMade == calls' = calls + 1

\* _USAGE_STATS["tool_calls"][tool], 0 while the key is missing
InvocationCount(u, tool) ==
    IF tool \in DOMAIN u.tool_calls THEN u.tool_calls[tool] ELSE 0

C13_EveryCallCounted ==
    [][CallMade =>
          InvocationCount(USAGE_STATS', last_call'.tool)
              = InvocationCount(USAGE_STATS, last_call'.tool) + 1]_vars

\* the input of call c is invalid: a blank or too long query (for
\* search_content also one of too many words), or a domain name that is not
\* a non-empty string over [A-Za-z0-9_-]
InvalidInput(c) ==
    \/ /\ c.tool \in {"search_skills", "search_content"}
       /\ IsBlank(c.args[1]) \/ Len(c.args[1]) > QueryMaxLen
    \/ /\ c.tool = "search_content"
       /\ Len(Split(c.args[1])) > QueryMaxWords
    \/ /\ c.tool \in {"get_skill", "get_sub_skill"}
       /\ LET s == Chars(c.args[1])
          IN  s = <<>> \/ \E i \in 1..Len(s) : s[i] \notin NameChars

\* C19: a call with invalid input returns an error result, makes no
\* filesystem access and no index load, and leaves _INDEX, _CONTENT_INDEX
\* and the recent-searches buffer as they were.
C19_InvalidInputRejected ==
    [][(CallMade /\ InvalidInput(last_call'))
       => /\ "error" \in DOMAIN last_call'.value
          /\ last_call'.io = {}
          /\ INDEX' = INDEX
          /\ CONTENT_INDEX' = CONTENT_INDEX
          /\ USAGE_STATS'.searches = USAGE_STATS.searches]_vars

(* ------------------------ claims: usage tracker ------------------------ *)

\* the last n elements of sequence s, all of them when it has fewer
LastOf(s, n) ==
    SubSeq(s, IF Len(s) > n THEN Len(s) - n + 1 ELSE 1, Len(s))

\* the queries the recent-searches buffer holds, oldest first
Buffered ==
    [i \in 1..Len(USAGE_STATS.searches) |-> USAGE_STATS.searches[i].query]

\* C12: whatever track_usage calls the threads have made, the recent-searches
\* buffer holds at most 100 entries and they are the last recorded queries,
\* in the order in which they were recorded.
C12_RecentSearchesBounded ==
    /\ Len(USAGE_STATS.searches) <= SearchesMaxLen
    /\ Buffered = LastOf(recorded, SearchesMaxLen)

\* C12 witness: more than 100 queries have been recorded, the buffer is full
\* and the oldest recorded query is no longer in it.
C12_Witness ==
    /\ Len(recorded) > SearchesMaxLen
    /\ Len(USAGE_STATS.searches) = SearchesMaxLen
    /\ \A i \in 1..Len(Buffered) : Buffered[i] # recorded[1]

\* the values a stats_copy taken of usage state u holds
CutOf(u) ==
    [tool_calls |-> u.tool_calls, skill_loads |-> u.skill_loads,
     recent_searches |-> RecentSearches(u.searches)]

\* this step is the copy of a _get_stats call
CopyTaken == \E t \in Threads : pc[t] = "st_lock" /\ pc'[t] = "st_index"

\* C14: the dict _get_stats returns shows the usage state as it was between
\* two whole track_usage calls, and no later step changes what it shows.
C14_StatsCopyIsACut ==
    [][/\ CopyTaken => Shown(stats_copy)' = CutOf(committed)
       /\ (stats_copy # None /\ ~CopyTaken) =>
              Shown(stats_copy)' = Shown(stats_copy)]_vars

\* C14 witness: a track_usage call has changed the tool_calls, the
\* skill_loads or the recent searches since the copy was taken.
C14_Witness ==
    /\ stats_copy # None
    /\ Shown(stats_copy).tool_calls # USAGE_STATS.tool_calls
    /\ \/ Shown(stats_copy).skill_loads # USAGE_STATS.skill_loads
       \/ Shown(stats_copy).recent_searches
              # RecentSearches(USAGE_STATS.searches)
(* ------------------------- claims: validate_meta ------------------------ *)

\* validate_meta has been called on the value in `meta`
Validated == meta # None /\ results # None

\* v is an object that has the key k
HasField(v, k) == v.type = "dict" /\ k \in DOMAIN v.val

\* a list of str
ListOfStrings(v) ==
    v.type = "list" /\ \A i \in 1..Len(v.val) : v.val[i].type = "str"

\* a list of elements that each have name and file
ListOfSubSkills(v) ==
    /\ v.type = "list"
    /\ \A i \in 1..Len(v.val) :
           HasField(v.val[i], "name") /\ HasField(v.val[i], "file")

\* the record is valid for the directory it is in
ValidRecord(m, skill_name) ==
    /\ HasField(m, "description")
    /\ HasField(m, "name")
    /\ m.val["name"].type = "str"
    /\ m.val["name"].val = Chars(skill_name)
    /\ HasField(m, "tags") => ListOfStrings(m.val["tags"])
    /\ HasField(m, "sub_skills") => ListOfSubSkills(m.val["sub_skills"])

\* C21: for a record with description, with the directory's name as name,
\* with tags (if any) a list of strings and sub_skills (if any) a list of
\* elements that each have name and file, validate_meta returns the empty
\* list
C21_ValidRecordNoErrors ==
    (Validated /\ ValidRecord(meta.meta, meta.skill_name))
        => (results.raised = Nothing /\ results.errors = <<>>)

\* a valid record with tags and with two sub-skills has been validated
C21_Witness ==
    /\ Validated
    /\ ValidRecord(meta.meta, meta.skill_name)
    /\ HasField(meta.meta, "tags")
    /\ HasField(meta.meta, "sub_skills")
    /\ Len(meta.meta.val["sub_skills"].val) = 2
    /\ results.errors = <<>>

\* how many of the returned messages are of the rule, name the field and
\* name the index
Messages(rule, field, i) ==
    Len(SelectSeq(results.errors,
                  LAMBDA e : e.rule = rule /\ e.field = field
                             /\ e.index = i))

\* the place of a rule in the order of the rules
RuleRank(rule) ==
    CASE rule = "required" -> 1
      [] rule = "name" -> 2
      [] rule = "tags" -> 3
      [] rule \in {"sub_skills", "sub_skill"} -> 4

\* the elements of sub_skills, where it is a list
SubSkillElements(m) ==
    IF HasField(m, "sub_skills") /\ m.val["sub_skills"].type = "list"
    THEN m.val["sub_skills"].val
    ELSE <<>>

\* C22: validate_meta returns exactly one message per missing required field,
\* naming it: one per top-level name or description that is absent and one
\* per element i of sub_skills and field of name, file the element does not
\* have, naming i; the messages are in the order of the rules, and tags that
\* are not a list of strings add exactly one message
C22_OneErrorPerMissingField ==
    (Validated /\ results.raised = Nothing) =>
        LET m == meta.meta
            items == SubSkillElements(m)
        IN  /\ \A f \in {"name", "description"} :
                   Messages("required", f, -1)
                       = IF HasField(m, f) THEN 0 ELSE 1
            /\ \A i \in 1..Len(items) : \A f \in {"name", "file"} :
                   Messages("sub_skill", f, i - 1)
                       = IF HasField(items[i], f) THEN 0 ELSE 1
            /\ \A i, j \in 1..Len(results.errors) :
                   i < j => RuleRank(results.errors[i].rule)
                                <= RuleRank(results.errors[j].rule)
            /\ Messages("tags", "list", -1) + Messages("tags", "strings", -1)
                   = IF HasField(m, "tags") /\ ~ListOfStrings(m.val["tags"])
                     THEN 1 ELSE 0

\* C23: validate_meta raises for no parsed value: it returns a list of
\* messages for an object with fields of any type, for sub_skills whose
\* elements are not objects and for a value that is not an object
C23_ValidatorNeverRaises ==
    Validated => results.raised = Nothing

(* --------------------- claims: what the files hold ---------------------- *)

\* the one call looked at has been made, and it was a call of tool
CalledTool(tool) == last_call # None /\ last_call.tool = tool

\* a load pass has been made: reload_index() has been called
LoadPass == CalledTool("reload_index")

\* the domain directories whose _meta.json exists and parses, in directory
\* order
Parsed == SelectSeq(DomainOrder, LAMBDA d : files[d].meta.state = "parsed")

\* how many validation errors of the index are about directory d and are
\* of one of the rules
ErrorsOf(d, rules) ==
    Len(SelectSeq(INDEX.validation_errors,
                  LAMBDA e : e.skill = d /\ e.rule \in rules))

AllRules ==
    {"required", "name", "tags", "sub_skills", "sub_skill", "json", "read"}

\* the record of d has a name that is not the directory's
NameMismatch(d) ==
    /\ files[d].meta.state = "parsed"
    /\ HasField(files[d].meta.value, "name")
    /\ ~IsStr(files[d].meta.value.val["name"], Chars(d))

\* C24: after a load pass the index holds exactly one record for each
\* domain directory whose _meta.json exists and parses, records with
\* validation errors included, and none for a directory whose _meta.json is
\* missing or cannot be parsed; a name that differs from the directory name
\* adds exactly one error, a missing _meta.json none and one that cannot be
\* parsed exactly one
C24_LoadedIndexHoldsParsedRecords ==
    LoadPass =>
        /\ INDEX # None
        /\ INDEX.skills = [i \in 1..Len(Parsed) |->
                             files[Parsed[i]].meta.value]
        /\ \A d \in Domains :
               /\ files[d].meta.state = "missing" => ErrorsOf(d, AllRules) = 0
               /\ files[d].meta.state \in {"invalid", "unreadable"}
                      => ErrorsOf(d, AllRules) = 1
               /\ ErrorsOf(d, {"name"}) = IF NameMismatch(d) THEN 1 ELSE 0

\* C25: a load pass raises nothing, and whatever the _meta.json of one
\* domain holds, every other domain whose _meta.json parses is in the index
\* that results and its SKILL.md in the content index
C25_LoadIsolatesFaults ==
    LoadPass =>
        /\ ~HasRaised(last_call)
        /\ \A d \in Domains :
               /\ files[d].meta.state = "parsed" =>
                      /\ INDEX # None
                      /\ \E i \in 1..Len(INDEX.skills) :
                             INDEX.skills[i] = files[d].meta.value
               /\ files[d].skill_md =>
                      /\ CONTENT_INDEX # None
                      /\ \E i \in 1..Len(CONTENT_INDEX.entries) :
                             CONTENT_INDEX.entries[i].domain = d

\* the operations that read the store or the indexes for a caller
Readers ==
    {"list_skills", "get_skill", "get_sub_skill", "search_skills",
     "search_content", "get_stats", "validate_skills"}

\* C26: on every store state, records that failed validation included, each
\* of list_skills, get_skill, get_sub_skill, search_skills, search_content,
\* get_stats and validate_skills returns a result (data or an error value)
\* and raises nothing
C26_ReadersNeverRaise ==
    (last_call # None /\ last_call.tool \in Readers) => ~HasRaised(last_call)

\* what _get_skill or _get_sub_skill returns for request req on the globals
\* as they are
Alone(req) ==
    IF req.sub_skill # Nothing /\ req.sub_skill[1] # <<>>
    THEN get_sub_skill_files(Globals, files, req.domain, req.sub_skill[1])
    ELSE get_skill_files(Globals, files, req.domain)

\* C27: get_skills_batch returns exactly one result per request, in the
\* order of the requests: result i is what get_skill or get_sub_skill
\* returns for request i, an error entry for a request that fails
C27_BatchOneResultPerRequest ==
    CalledTool("get_skills_batch") =>
        LET requests == last_call.args[1]
        IN  /\ ~HasRaised(last_call)
            /\ Len(last_call.value.results) = Len(requests)
            /\ \A i \in 1..Len(requests) :
                   last_call.value.results[i] = Alone(requests[i]).value

\* C28: get_sub_skill returns the content of a file only when the file is
\* inside the directory of the domain: a descriptor whose file resolves
\* elsewhere gets an error and no content
C28_SubSkillStaysInDomain ==
    (CalledTool("get_sub_skill") /\ "content" \in DOMAIN last_call.value) =>
        StartsWith(last_call.value.content.text_of,
                   DomainDir(last_call.args[1]) \o <<"/">>)

(* -------------------------- claims: the locks -------------------------- *)

\* the lock that guards each of the four shared states
LockOf ==
    [_INDEX |-> "_INDEX_LOCK", _CONTENT_INDEX |-> "_CONTENT_INDEX_LOCK",
     _FILE_MTIMES |-> "_FILE_MTIMES_LOCK", _USAGE_STATS |-> "_STATS_LOCK"]

\* the shared states the next step of p reads or assigns
Touches(p) ==
    CASE pc[p] \in {"tu", "st_copy"} -> {"_USAGE_STATS"}
      [] pc[p] \in {"gi", "gi_set", "rl_swap", "w_swap", "rl_ret"} ->
             {"_INDEX"}
      [] pc[p] \in {"li_cswap", "sc_acq", "sc_iter", "rl_count", "st_count"} ->
             {"_CONTENT_INDEX"}
      [] pc[p] = "cf_scan" -> {"_FILE_MTIMES"}
      [] OTHER -> {}

\* the locks the next step of p runs under: those p holds and the one the
\* step itself takes
Under(p) == Held(p) \cup ({WaitsFor(p)} \ {"none"})

\* C29: every read and every write of the metadata index, the content
\* index, the file-timestamp snapshot and the usage statistics is made by a
\* thread that holds the lock of that state
C29_GuardedStatesUnderOwnLock ==
    \A p \in Procs : \A s \in Touches(p) : LockOf[s] \in Under(p)

\* the two index locks
IndexLocks == {"_INDEX_LOCK", "_CONTENT_INDEX_LOCK"}

\* C30: get_stats holds _STATS_LOCK only while it copies the counters and
\* has released it when it goes on to the metadata index and the content
\* index; no thread requests an index lock while it holds _STATS_LOCK, and
\* none requests _STATS_LOCK while it holds an index lock
C30_StatsLockApartFromIndexLocks ==
    \A p \in Procs :
        /\ (p \in Threads /\ op[p] = "get_stats" /\ pc[p] # "st_copy")
               => locks["_STATS_LOCK"] # p
        /\ locks["_STATS_LOCK"] = p => WaitsFor(p) \notin IndexLocks
        /\ WaitsFor(p) = "_STATS_LOCK" => Held(p) \cap IndexLocks = {}

\* C30 witness: a get_stats call has copied the counters and read the
\* metadata index and is about to read the content index, holding no lock,
\* while another call is about to take _STATS_LOCK
C30_Witness ==
    \E t, u \in Threads :
        /\ op[t] = "get_stats"
        /\ pc[t] = "st_count"
        /\ ret[t] # None
        /\ Held(t) = {}
        /\ pc[u] = "tu"

(* ---------------------- claims: the boost window ----------------------- *)

\* content.find(q): the 0-based position at which q first occurs in c
Find(c, q) == Least(Matches(c, q, 1)) - 1

\* C31: in the list _search_content returns, an entry whose content
\* contains the whole query has score 1.2 when the first occurrence of the
\* query starts before position 500 of the content, also when it ends after
\* position 500, and score 1.0 when it starts at position 500 or later
C31_BoostByMatchPosition ==
    ContentReturned =>
        \A k \in 1..Len(content) :
            LET c == content[k].content
                q == Lower(query)
            IN  Contains(c, q) =>
                    \A i \in ContentEntries(content[k]) :
                        results.value.results[i].score =
                            IF Find(c, q) < BoostWindow THEN 1200 ELSE 1000

(* ----------------------- claims: usage counters ------------------------ *)

\* the track_usage call of thread t counts its tool in this step
Counts(t, o) == pc[t] = "tu_store" /\ pc'[t] = "tu_details" /\ op[t] = o

\* the track_usage call of thread t, which carries domain d, returns in
\* this step
Completes(t, d) ==
    pc[t] = "tu_details" /\ pc'[t] = "idle" /\ arg[t].domain = Some(d)

\* C32: no usage update is lost, whatever the interleaving of the threads.
\* The step in which a track_usage call counts its tool leaves the counter
\* of that tool exactly one above what it was, the step in which a call
\* that carries a domain returns leaves the load counter of that domain
\* exactly one above what it was, and no other step changes a counter: so
\* after n calls of a tool have returned its counter has grown by n, and
\* no counter ever decreases or is reset
C32_NoUsageUpdateLost ==
    [][/\ \A o \in Ops :
            USAGE_STATS'.tool_calls[o] =
                USAGE_STATS.tool_calls[o] +
                    (IF \E t \in Threads : Counts(t, o) THEN 1 ELSE 0)
       /\ \A d \in SafeNames :
            USAGE_STATS'.skill_loads[d] =
                USAGE_STATS.skill_loads[d] +
                    (IF \E t \in Threads : Completes(t, d) THEN 1 ELSE 0)
      ]_vars

\* C32 witness: one get_skill call has returned and been counted, a second
\* one is between the read and the store of its `+= 1` and a third one is
\* waiting for _STATS_LOCK
C32_Witness ==
    \E t, u \in Threads :
        /\ op[t] = "get_skill" /\ pc[t] = "tu_store"
        /\ op[u] = "get_skill" /\ pc[u] = "tu_lock"
        /\ USAGE_STATS.tool_calls["get_skill"] = 1
        /\ USAGE_STATS.skill_loads["d1"] = 1

(* ------------------------ claims: read operations ---------------------- *)

\* the operations that only read the indexes
ReadTools ==
    {"list_skills", "get_skill", "get_sub_skill", "get_skills_batch",
     "search_skills", "search_content", "get_stats"}

\* C33: once _INDEX is set, a call of list_skills, get_skill, get_sub_skill,
\* get_skills_batch, search_skills, search_content or get_stats leaves
\* _INDEX, _CONTENT_INDEX and _FILE_MTIMES as they were: of the shared
\* states it changes _USAGE_STATS only
C33_ReadsLeaveIndexes ==
    [][(CallMade /\ INDEX # None /\ last_call'.tool \in ReadTools)
       => /\ INDEX' = INDEX
          /\ CONTENT_INDEX' = CONTENT_INDEX
          /\ FILE_MTIMES' = FILE_MTIMES]_vars

\* C33 witness: a read operation has run on an index that the store has
\* moved away from since it was loaded, and has left it in place
C33_Witness ==
    /\ last_call # None
    /\ last_call.tool \in ReadTools
    /\ last_call.clock = clock
    /\ "load_index" \notin last_call.io
    /\ "raised" \notin DOMAIN last_call.value
    /\ "error" \notin DOMAIN last_call.value
    /\ INDEX # None
    /\ rootExists
    /\ INDEX # LoadOf(store)

(* ----------------------- claims: the two indexes ----------------------- *)

\* C34: in every reachable state in which _INDEX is set _CONTENT_INDEX is
\* set too, so that a _search_content that runs after a load has completed
\* never iterates a _CONTENT_INDEX that is None
C34_ContentIndexSetWithIndex ==
    /\ INDEX # None => CONTENT_INDEX # None
    /\ \A t \in Threads :
         (pc[t] = "sc_iter" /\ INDEX # None) => CONTENT_INDEX # None

(* -------------------------- claims: lazy load -------------------------- *)

\* the positions of a thread inside get_index(), and those inside the
\* load_index() it calls
InGetIndex ==
    {"gi", "li_start", "li_scan", "li_build", "bc_scan", "li_cswap", "gi_set"}

InLoad == InGetIndex \ {"gi"}

\* C35: when threads read the index while it is not loaded and neither
\* reload_index nor file_watcher runs, the load pass is run exactly once
\* and every read gets its snapshot: a read starts a load pass only when
\* _INDEX is None and no other thread is in one, every get_index() returns,
\* and returns the installed _INDEX, and an installed _INDEX is not replaced
C35_LazyLoadExactlyOnce ==
    [][/\ \A t \in Threads :
            /\ (pc[t] = "gi" /\ pc'[t] = "li_start") =>
                   /\ INDEX = None
                   /\ \A u \in Threads \ {t} : pc[u] \notin InLoad
            /\ (pc[t] \in InGetIndex /\ pc'[t] \notin InGetIndex) =>
                   /\ ret'[t] # None
                   /\ ret'[t] = INDEX'
       /\ INDEX # None => INDEX' = INDEX
      ]_vars

(* --------------------- claims: order of installation ------------------- *)

\* metadata snapshot i is what a load pass over the store as it is now
\* produces: no snapshot can have been read from a later state of the store
Current(i) == i.skills = LoadOf(store).skills

\* snapshot a holds an older version of some _meta.json than snapshot b
OlderThan(a, b) ==
    \E i \in 1..Len(a.skills) : \E j \in 1..Len(b.skills) :
        /\ a.skills[i].name = b.skills[j].name
        /\ a.skills[i].version < b.skills[j].version

\* C36: metadata snapshots are installed in the order in which they were
\* read from the store: when loads of reload_index and file_watcher overlap,
\* the snapshot that replaces the installed one was never read from an
\* older state of the store than the installed one was
C36_InstalledInReadOrder ==
    [][(INDEX # None /\ INDEX' # INDEX) =>
          /\ ~OlderThan(INDEX', INDEX)
          /\ Current(INDEX) => Current(INDEX')]_vars

(* ----------------------- claims: what reload reports -------------------- *)

\* C37: the skill count and the validation errors a reload_index call
\* returns are those of the metadata snapshot this call has built and
\* installed, and its content count is that of the content index this call
\* has built, whatever other reloads and file_watcher cycles do meanwhile:
\* when the call reads _CONTENT_INDEX and, twice, _INDEX for its result, they
\* are the ones it has built
C37_ReloadReportsItsOwnSnapshot ==
    [][\A t \in Threads :
          /\ (pc[t] = "rl_count" /\ pc'[t] = "rl_ret" /\ cindex[t].done) =>
                 CONTENT_INDEX = cindex[t]
          /\ (pc[t] = "rl_ret" /\ (ret'[t] # ret[t] \/ pc'[t] = "idle")) =>
                 INDEX = index[t]
      ]_vars

(* ---------------------- claims: a reload that fails -------------------- *)

\* what check_for_changes returns when it runs, uninterrupted, on the store
\* and the _FILE_MTIMES of this state
WouldReport ==
    /\ rootExists
    /\ \/ \E d \in Domains : DiffersIn(d)
       \/ Deleted(FILE_MTIMES, store)

\* C38: a change file_watcher has detected is not lost when the load_index
\* of that cycle raises: the change is still there to be detected, so that
\* the check of the next cycle reports it, no file having changed in
\* between, and the reload is performed again
C38_FailedReloadIsRetried ==
    [][(pc[Watcher] \in InLoad /\ pc'[Watcher] = "w_check") =>
          WouldReport']_vars

====
